---- MODULE Spec2Model ----
(***************************************************************************)
(* FuelCostHedgeEngine: the ingestion sink (pr_grid_logger.py), the        *)
(* numeric normaliser and the field extractors (genera_scraper.py,         *)
(* genera_plants_scraper.py) and the fuel-mix extraction script            *)
(* (genera_fuel_mix_scraper.py).                                           *)
(*                                                                         *)
(* Values.  Python and JSON values are tagged records, one field name per  *)
(* type, so that values of different types compare unequal:                *)
(*   None            [none |-> TRUE]                                       *)
(*   int  n          [num |-> n]                                           *)
(*   float n.0       [flt |-> n]                                           *)
(*   str  "abc"      [str |-> "abc"]                                       *)
(*   str holding an ISO-8601 timestamp of instant t whose date and time    *)
(*   are separated by sep          [ts |-> t, sep |-> sep]                 *)
(*   str holding the decimal text of the number n    [numtext |-> n]       *)
(*   str(v) of a value v that is not a str           [repr |-> v]          *)
(*   list            [arr |-> <<...>>]                                     *)
(*   dict            [obj |-> [key |-> value, ...]]                        *)
(*   the empty dict {}             [emptydict |-> TRUE]                    *)
(***************************************************************************)
EXTENDS Integers, Sequences, FiniteSets, TLC

VARIABLES
    db,       \* generation_log.sqlite: [table |-> BOOLEAN, rows |-> Seq(row)]
    csv,      \* generation_log.csv: [exists |-> BOOLEAN, lines |-> Seq(line)]
    stderr,   \* the error stream of the ingester, oldest message first
    outcome,  \* how the last process_once call ended
    calls,    \* process_once calls made so far
    file,     \* the content of snapshot.json at the last call
    \* two ingester processes on the same sinks
    pc,       \* the line each ingester is at
    inp,      \* the content of the file each ingester reads
    row,      \* the row each ingester parsed
    seen,     \* csv_path.exists() as each ingester's ensure_csv read it
    res,      \* how each ingester's process_once ended
    \* the polling loop of main
    poll,     \* [pc, input, mtime, last_seen_mtime, cycles, history, exc]
    \* the numeric normaliser
    norm,     \* [input, fn, result]: a _to_float call and what it returned
    \* genera_scraper.py
    mix,      \* [text, label, number, done, out]: a parse_fuel_mix call
    scr,      \* [pages, dom, done, out, text_out, dom_calls]: a scrape_once run
              \* from the page texts on
    \* genera_plants_scraper.py
    plant,    \* [title, card, text, done, item]: a harvest_for call
    \* genera_fuel_mix_scraper.py
    fm,       \* the runs of the fuel-mix script and the files they leave
    \* genera_scraper.py: a field that occurs twice in the page text
    occ,      \* [entry, first, second, text, searched, found, parsed, fuel_mix]
    \* genera_plants_scraper.py: the navigation of scrape_plants
    nav       \* [pc, sel, attempt, log, returns, loaded, exc]

ingestVars == <<db, csv, stderr, outcome, calls, file>>
concVars == <<pc, inp, row, seen, res>>
sinkVars == <<ingestVars, concVars, poll>>

scraperVars == <<norm, mix, scr, plant, fm, occ, nav>>

vars == <<sinkVars, scraperVars>>

----------------------------------------------------------------------------
(* Values *)

None == [none |-> TRUE]
JNum(n) == [num |-> n]
JStr(s) == [str |-> s]
JTs(t, sep) == [ts |-> t, sep |-> sep]
JNumText(n) == [numtext |-> n]
JArr(s) == [arr |-> s]
JObj(f) == [obj |-> f]
Float(n) == [flt |-> n]
EmptyDict == [emptydict |-> TRUE]
Raise(e) == [raise |-> e]

IsNum(v) == "num" \in DOMAIN v
IsTs(v) == "ts" \in DOMAIN v
IsNumText(v) == "numtext" \in DOMAIN v
IsStr(v) == DOMAIN v \in {{"str"}, {"ts", "sep"}, {"numtext"}, {"repr"}}
IsArr(v) == "arr" \in DOMAIN v
IsObj(v) == "obj" \in DOMAIN v
IsFlt(v) == "flt" \in DOMAIN v
IsRaise(v) == "raise" \in DOMAIN v

\* Python truthiness, as used by `x or {}`.
Falsy(v) == v \in {None, JNum(0), JStr(""), JArr(<<>>), EmptyDict}

\* str(v)
PyStr(v) == IF IsStr(v) THEN v ELSE [repr |-> v]

----------------------------------------------------------------------------
(* Text.  A Python str whose characters matter is [chars |-> <<c1, ..., cn>>], *)
(* a sequence of one-character strings.  A float with the decimal expansion   *)
(* m / 10^k is [mant |-> m, frac |-> k], with k as small as it can be.        *)

PStr(s) == [chars |-> s]

Digits == <<"0", "1", "2", "3", "4", "5", "6", "7", "8", "9">>
IsDigit(c) == \E i \in 1..Len(Digits) : Digits[i] = c
DigitVal(c) == (CHOOSE i \in 1..Len(Digits) : Digits[i] = c) - 1
IsSpace(c) == c \in {" ", "\t", "\n", "\r"}

RECURSIVE LStrip(_)
LStrip(s) == IF Len(s) > 0 /\ IsSpace(s[1]) THEN LStrip(Tail(s)) ELSE s
RECURSIVE RStrip(_)
RStrip(s) ==
    IF Len(s) > 0 /\ IsSpace(s[Len(s)]) THEN RStrip(SubSeq(s, 1, Len(s) - 1)) ELSE s
\* str.strip()
Strip(s) == RStrip(LStrip(s))

Has(s, c) == \E i \in 1..Len(s) : s[i] = c
\* s.replace(c, "")
Remove(s, c) == SelectSeq(s, LAMBDA x : x # c)
\* s.replace(c, d), d one character
Replace(s, c, d) == [i \in 1..Len(s) |-> IF s[i] = c THEN d ELSE s[i]]

RECURSIVE IntOf(_)
IntOf(digs) ==
    IF Len(digs) = 0 THEN 0
    ELSE IntOf(SubSeq(digs, 1, Len(digs) - 1)) * 10 + DigitVal(digs[Len(digs)])

RECURSIVE Dec(_, _)
Dec(m, k) == IF k > 0 /\ m % 10 = 0 THEN Dec(m \div 10, k - 1) ELSE [mant |-> m, frac |-> k]
IsDec(v) == "mant" \in DOMAIN v

\* float(s) of a text of digits, ".", "," and other characters: the value, or
\* ValueError.  (Signs, exponents, "inf", "nan" and "_" are outside the texts.)
ParseFloat(s) ==
    LET t == Strip(s)
        dots == {i \in 1..Len(t) : t[i] = "."}
    IN
    IF \/ \E i \in 1..Len(t) : ~IsDigit(t[i]) /\ t[i] # "."
       \/ Cardinality(dots) > 1
       \/ ~\E i \in 1..Len(t) : IsDigit(t[i])
    THEN Raise("ValueError")
    ELSE Dec(IntOf(Remove(t, ".")),
             IF dots = {} THEN 0 ELSE Len(t) - (CHOOSE i \in dots : TRUE))

----------------------------------------------------------------------------
(* genera_scraper.py, genera_plants_scraper.py: the numeric normaliser *)

\* genera_scraper._to_float
_to_float(num_str) ==
    IF num_str = None \/ num_str.chars = <<>> THEN None
    ELSE
    LET s == Strip(num_str.chars)
        t == IF Has(s, ",") /\ Has(s, ".") THEN Remove(s, ",")
             ELSE IF Has(s, ",") THEN Replace(Remove(s, "."), ",", ".")
             ELSE s
        f == ParseFloat(t)
    IN IF IsRaise(f) THEN None ELSE f

\* genera_plants_scraper._to_float
plants_to_float(s) ==
    IF s = None \/ s.chars = <<>> THEN None
    ELSE
    LET x0 == Strip(s.chars)
        x == IF Has(x0, ",") /\ Has(x0, ".") THEN Remove(x0, ",")
             ELSE IF Has(x0, ",") THEN Replace(Remove(x0, "."), ",", ".")
             ELSE x0
        f == ParseFloat(x)
    IN IF IsRaise(f) THEN None ELSE f

MaxNormLen == 3

NormAlphabet == {"1", "5", ",", ".", "a", " "}

Texts(alphabet, n) == UNION {[1..k -> alphabet] : k \in 0..n}

NormCases ==
    { <<"1", ",", "2", "3", "4", ".", "5", "6">>,
      <<"1", ".", "2", "3", "4", ",", "5", "6">>,
      <<"2", "1", "2", "9">>,
      <<"a", "b", "c">>,
      <<"1", "2", ".", "5">> }

NormInputs ==
    {None} \cup {PStr(t) : t \in NormCases \cup Texts(NormAlphabet, MaxNormLen)}

----------------------------------------------------------------------------
(* genera_scraper.py: the regular expressions, matched as Python's re does *)

UpperCase ==
    <<"A", "B", "C", "D", "E", "F", "G", "H", "I", "J", "K", "L", "M", "N",
    "O", "P", "Q", "R", "S", "T", "U", "V", "W", "X", "Y", "Z", "Á", "É",
    "Í", "Ó", "Ú">>
LowerCase ==
    <<"a", "b", "c", "d", "e", "f", "g", "h", "i", "j", "k", "l", "m", "n",
    "o", "p", "q", "r", "s", "t", "u", "v", "w", "x", "y", "z", "á", "é",
    "í", "ó", "ú">>
\* str.lower() of one character; re.IGNORECASE compares characters by it.
Lower(c) ==
    IF \E i \in 1..Len(UpperCase) : UpperCase[i] = c
    THEN LowerCase[CHOOSE i \in 1..Len(UpperCase) : UpperCase[i] = c]
    ELSE c
LowerStr(t) == [i \in 1..Len(t) |-> Lower(t[i])]

\* The literal lit matches text t at position i, ignoring case.
LitAt(t, i, lit) ==
    /\ i >= 1
    /\ i + Len(lit) - 1 <= Len(t)
    /\ \A k \in 1..Len(lit) : Lower(t[i + k - 1]) = Lower(lit[k])

\* \s* from position i: the position after the whitespace.
RECURSIVE SkipWs(_, _)
SkipWs(t, i) == IF i <= Len(t) /\ IsSpace(t[i]) THEN SkipWs(t, i + 1) ELSE i

IsNumChar(c) == IsDigit(c) \/ c \in {".", ","}

\* [\d\.,]+ from position i: the position after the run (i when there is none).
RECURSIVE SkipNum(_, _)
SkipNum(t, i) == IF i <= Len(t) /\ IsNumChar(t[i]) THEN SkipNum(t, i + 1) ELSE i

\* ([\d\.,]+)\s*unit at position i: [from, to] of the group, or [from |-> 0].
NoMatch == [from |-> 0, to |-> 0]
NumUnitAt(t, i, unit) ==
    LET e == SkipNum(t, i)
        u == SkipWs(t, e)
    IN IF e > i /\ LitAt(t, u, unit) THEN [from |-> i, to |-> e - 1, end |-> u + Len(unit)]
       ELSE NoMatch

\* The position after the first "\n" at or after i when only characters other
\* than "\r" come before it ([^\n\r]*?\n), else 0.
RECURSIVE AfterNewline(_, _)
AfterNewline(t, i) ==
    IF i > Len(t) \/ t[i] = "\r" THEN 0
    ELSE IF t[i] = "\n" THEN i + 1
    ELSE AfterNewline(t, i + 1)

\* (?:[^\n\r]*?\n|\s+)*?([\d\.,]+)\s*unit from position i, in the order the
\* backtracking matcher tries: no further repetition first, then a repetition
\* by the first alternative, then by the second (longest whitespace first).
RECURSIVE GapThenNumber(_, _, _)
RECURSIVE GapByWs(_, _, _, _)
GapByWs(t, i, n, unit) ==
    IF n < 1 THEN NoMatch
    ELSE LET r == GapThenNumber(t, i + n, unit) IN
         IF r.from > 0 THEN r ELSE GapByWs(t, i, n - 1, unit)
GapThenNumber(t, i, unit) ==
    LET here == NumUnitAt(t, i, unit) IN
    IF here.from > 0 THEN here
    ELSE LET nl == AfterNewline(t, i)
             byLine == IF nl > 0 THEN GapThenNumber(t, nl, unit) ELSE NoMatch
         IN IF byLine.from > 0 THEN byLine
            ELSE GapByWs(t, i, SkipWs(t, i) - i, unit)

\* The least element of a set of positions, 0 for the empty set: the leftmost
\* position a search finds a match at.
Leftmost(hits) == IF hits = {} THEN 0 ELSE CHOOSE j \in hits : \A k \in hits : j <= k

GapFromHit(t, j, label, unit) ==
    IF j = 0 THEN NoMatch ELSE GapThenNumber(t, j + Len(label), unit)

\* re.search(pattern, page_text, re.IGNORECASE) of _search_number_after_label,
\* trying the positions from i on: the group of the leftmost match.
SearchLabelFrom(t, i, label, unit) ==
    GapFromHit(t, Leftmost({j \in i..Len(t) :
                               /\ LitAt(t, j, label)
                               /\ GapThenNumber(t, j + Len(label), unit).from > 0}),
               label, unit)

\* Lines 63-65: _to_float(m.group(1)) if there is a match.
GroupToFloat(page_text, m) ==
    IF m.from > 0 THEN _to_float(PStr(SubSeq(page_text, m.from, m.to))) ELSE None

_search_number_after_label(page_text, label, unit) ==
    GroupToFloat(page_text, SearchLabelFrom(page_text, 1, label, unit))

\* The alternatives of FUEL_REGEX's first group at position i: the position
\* after the label, or 0.
AltGasNatural(t, i) ==
    LET j == SkipWs(t, i + 3) IN
    IF LitAt(t, i, <<"g", "a", "s">>) /\ LitAt(t, j, <<"n", "a", "t", "u", "r", "a", "l">>) THEN j + 7 ELSE 0
AltCarbon(t, i) ==
    IF /\ LitAt(t, i, <<"c", "a", "r", "b">>)
       /\ (LitAt(t, i + 4, <<"o">>) \/ LitAt(t, i + 4, <<"ó">>))
       /\ LitAt(t, i + 5, <<"n">>)
    THEN i + 6 ELSE 0
AltBunkerDiesel(t, i) ==
    LET j == SkipWs(t, i + 6)
        k == IF j <= Len(t) /\ t[j] = "/" THEN j + 1 ELSE j
        l == SkipWs(t, k)
    IN IF /\ LitAt(t, i, <<"b", "u", "n", "k", "e", "r">>)
          /\ LitAt(t, l, <<"d", "i">>)
          /\ (LitAt(t, l + 2, <<"é">>) \/ LitAt(t, l + 2, <<"e">>))
          /\ LitAt(t, l + 3, <<"s", "e", "l">>)
       THEN l + 6 ELSE 0
AltRenovables(t, i) == IF LitAt(t, i, <<"r", "e", "n", "o", "v", "a", "b", "l", "e", "s">>) THEN i + 10 ELSE 0
AltOtros(t, i) == IF LitAt(t, i, <<"o", "t", "r", "o", "s">>) THEN i + 5 ELSE 0

FuelAlternatives == <<"Gas Natural", "Carbon", "Bunker Diesel", "Renovables", "Otros">>
FuelAltEnd(a, t, i) ==
    CASE a = 1 -> AltGasNatural(t, i)
      [] a = 2 -> AltCarbon(t, i)
      [] a = 3 -> AltBunkerDiesel(t, i)
      [] a = 4 -> AltRenovables(t, i)
      [] a = 5 -> AltOtros(t, i)

\* The end of the label group when an alternative matches at i, else 0 (the
\* alternatives start with different letters: at most one matches).
LabelEnd(ends) ==
    IF \A a \in DOMAIN ends : ends[a] = 0 THEN 0
    ELSE ends[CHOOSE a \in DOMAIN ends : ends[a] > 0]

\* [:\-]? at position j
SkipSep(t, j) == IF j <= Len(t) /\ t[j] \in {":", "-"} THEN j + 1 ELSE j

FuelGroups(i, e, n) ==
    IF n.from > 0
    THEN [from |-> i, to |-> e - 1, numFrom |-> n.from, numTo |-> n.to, end |-> n.end]
    ELSE [from |-> 0, to |-> 0]

FuelRegexRest(t, i, e) ==
    IF e = 0 THEN [from |-> 0, to |-> 0]
    ELSE FuelGroups(i, e, NumUnitAt(t, SkipWs(t, SkipSep(t, SkipWs(t, e))), <<"%">>))

\* FUEL_REGEX at position i: the label and number groups, or NoMatch.
FuelRegexAt(t, i) ==
    FuelRegexRest(t, i, LabelEnd([a \in 1..Len(FuelAlternatives) |-> FuelAltEnd(a, t, i)]))

\* FUEL_REGEX.finditer(page_text) from position i: the (label, number) groups
\* of the matches, in text order.
RECURSIVE FuelMatchesFrom(_, _)
FuelMatchThenRest(t, m) ==
    << [label |-> SubSeq(t, m.from, m.to), number |-> SubSeq(t, m.numFrom, m.numTo)] >>
        \o FuelMatchesFrom(t, m.end)
FuelMatchesAt(t, j) == IF j = 0 THEN <<>> ELSE FuelMatchThenRest(t, FuelRegexAt(t, j))
FuelMatchesFrom(t, i) ==
    FuelMatchesAt(t, Leftmost({j \in i..Len(t) : FuelRegexAt(t, j).from > 0}))

\* re.sub(r"\s*/\s*", " ", label) from position i.
RECURSIVE SubSlash(_, _)
SubSlash(t, i) ==
    IF i > Len(t) THEN <<>>
    ELSE LET j == SkipWs(t, i) IN
         IF j <= Len(t) /\ t[j] = "/" THEN <<" ">> \o SubSlash(t, SkipWs(t, j + 1))
         ELSE <<t[i]>> \o SubSlash(t, i + 1)

LABEL_NORMALIZE ==
    << <<<<"g", "a", "s", " ", "n", "a", "t", "u", "r", "a", "l">>, "gas_natural">>,
       <<<<"c", "a", "r", "b", "ó", "n">>, "carbon">>,
       <<<<"c", "a", "r", "b", "o", "n">>, "carbon">>,
       <<<<"b", "u", "n", "k", "e", "r", " ", "d", "i", "é", "s", "e", "l">>, "bunker_diesel">>,
       <<<<"b", "u", "n", "k", "e", "r", " ", "d", "i", "e", "s", "e", "l">>, "bunker_diesel">>,
       <<<<"r", "e", "n", "o", "v", "a", "b", "l", "e", "s">>, "renovables">>,
       <<<<"o", "t", "r", "o", "s">>, "otros">> >>

\* LABEL_NORMALIZE.get(label, None)
LabelKey(label) ==
    LET hits == {i \in 1..Len(LABEL_NORMALIZE) : LABEL_NORMALIZE[i][1] = label} IN
    IF hits = {} THEN None ELSE JStr(LABEL_NORMALIZE[CHOOSE i \in hits : TRUE][2])

\* Lines 145-147 of parse_fuel_mix: strip, lower, the slash rule, the accents.
NormalizeLabel(group1) ==
    LET a == LowerStr(Strip(group1))
        b == SubSlash(a, 1)
        c == Replace(Replace(b, "ó", "o"), "é", "e")
    IN Strip(c)

FuelKeys == {"gas_natural", "carbon", "bunker_diesel", "renovables", "otros"}

\* parse_fuel_mix's loop over the matches, out being the dict so far.
RECURSIVE FuelMixLoop(_, _)
FuelMixLoop(matches, out) ==
    IF matches = <<>> THEN out
    ELSE LET key == LabelKey(NormalizeLabel(matches[1].label))
             next == IF key = None THEN out
                     ELSE [out EXCEPT ![key.str] = _to_float(PStr(matches[1].number))]
         IN FuelMixLoop(Tail(matches), next)

parse_fuel_mix(page_text) ==
    FuelMixLoop(FuelMatchesFrom(page_text, 1), [k \in FuelKeys |-> None])

----------------------------------------------------------------------------
(* genera_scraper.py: scrape_once, from the page texts on *)

DETALLE_LABELS ==
    << [ label |-> <<"G", "e", "n", "e", "r", "a", "c", "i", "ó", "n", " ",
                  "T", "o", "t", "a", "l", " ", "d", "e", "l", " ", "S", "i",
                  "s", "t", "e", "m", "a">>,
         unit |-> <<"M", "W">>, key |-> "generacion_total_MW" ],
       [ label |-> <<"C", "a", "p", "a", "c", "i", "d", "a", "d", " ", "D",
                  "i", "s", "p", "o", "n", "i", "b", "l", "e">>,
         unit |-> <<"M", "W">>, key |-> "capacidad_disponible_MW" ],
       [ label |-> <<"R", "e", "s", "e", "r", "v", "a", " ", "e", "n", " ",
                  "R", "o", "t", "a", "c", "i", "ó", "n">>,
         unit |-> <<"M", "W">>, key |-> "reserva_en_rotacion_MW" ],
       [ label |-> <<"R", "e", "s", "e", "r", "v", "a", " ", "O", "p", "e",
                  "r", "a", "c", "i", "o", "n", "a", "l">>,
         unit |-> <<"M", "W">>, key |-> "reserva_operacional_MW" ] >>

PRONOSTICO_LABELS ==
    << [ label |-> <<"D", "e", "m", "a", "n", "d", "a", " ", "P", "r", "ó",
                  "x", "i", "m", "a", " ", "H", "o", "r", "a">>,
         unit |-> <<"M", "W">>, key |-> "proxima_hora_MW" ],
       [ label |-> <<"D", "e", "m", "a", "n", "d", "a", " ", "M", "á", "x",
                  "i", "m", "a", " ", "R", "e", "g", "i", "s", "t", "r", "a",
                  "d", "a", " ", "H", "o", "y">>,
         unit |-> <<"M", "W">>, key |-> "maxima_hoy_MW" ] >>

FUEL_LABELS ==
    << [ label |-> <<"G", "a", "s", " ", "N", "a", "t", "u", "r", "a", "l">>,
         unit |-> <<"%">>, key |-> "gas_natural" ],
       [ label |-> <<"C", "a", "r", "b", "ó", "n">>,
         unit |-> <<"%">>, key |-> "carbon" ],
       [ label |-> <<"B", "u", "n", "k", "e", "r", "/", "D", "i", "é", "s",
                  "e", "l">>,
         unit |-> <<"%">>, key |-> "bunker_diesel" ],
       [ label |-> <<"B", "u", "n", "k", "e", "r", " ", "/", " ", "D", "i",
                  "é", "s", "e", "l">>,
         unit |-> <<"%">>, key |-> "bunker_diesel" ],
       [ label |-> <<"R", "e", "n", "o", "v", "a", "b", "l", "e", "s">>,
         unit |-> <<"%">>, key |-> "renovables" ],
       [ label |-> <<"O", "t", "r", "o", "s">>,
         unit |-> <<"%">>, key |-> "otros" ] >>

KeysIn(catalog) == {catalog[i].key : i \in 1..Len(catalog)}

\* A Python dict with str keys is a function on its key set.
NewDict == [k \in {} |-> None]
DictSet(d, k, v) == [x \in DOMAIN d \cup {k} |-> IF x = k THEN v ELSE d[x]]
SetDefault(d, k, v) == IF k \in DOMAIN d THEN d ELSE DictSet(d, k, v)
GetOrNone(d, k) == IF k \in DOMAIN d THEN d[k] ELSE None

\* "\n".join(page_texts)
RECURSIVE JoinLines(_)
JoinLines(texts) ==
    IF Len(texts) = 0 THEN <<>>
    ELSE IF Len(texts) = 1 THEN texts[1]
    ELSE texts[1] \o <<"\n">> \o JoinLines(Tail(texts))

\* Lines 201-207: out[group][key] = _search_number_after_label(...) per entry.
RECURSIVE FirstPass(_, _, _)
FirstPass(catalog, text, d) ==
    IF catalog = <<>> THEN d
    ELSE FirstPass(Tail(catalog), text,
                   DictSet(d, catalog[1].key,
                           _search_number_after_label(text, catalog[1].label,
                                                      catalog[1].unit)))

\* The fuel-mix group without the setdefault of every catalog key.
FuelSkeletonNone(catalog, d) == d

\* Lines 210-211: out["fuel_mix_pct"].setdefault(key, None) per entry.
RECURSIVE FuelSkeleton(_, _)
FuelSkeleton(catalog, d) ==
    IF catalog = <<>> THEN d
    ELSE FuelSkeleton(Tail(catalog), SetDefault(d, catalog[1].key, None))

\* The order parse_fuel_mix's dict lists its keys in.
FuelKeyOrder == <<"gas_natural", "carbon", "bunker_diesel", "renovables", "otros">>

\* Lines 212-214: the parsed values that are not None are copied.
RECURSIVE CopyParsed(_, _, _)
CopyParsed(keys, parsed, d) ==
    IF keys = <<>> THEN d
    ELSE CopyParsed(Tail(keys), parsed,
                    IF parsed[keys[1]] # None THEN DictSet(d, keys[1], parsed[keys[1]])
                    ELSE d)

AllLabels == DETALLE_LABELS \o PRONOSTICO_LABELS \o FUEL_LABELS

\* The group an entry's key belongs to (lines 220-224 and 241-245).
Bucket(key) ==
    IF key \in KeysIn(DETALLE_LABELS) THEN "detalles_generacion"
    ELSE IF key \in KeysIn(PRONOSTICO_LABELS) THEN "pronostico_demanda"
    ELSE "fuel_mix_pct"

\* The fallback asked for every catalog entry.
EveryEntry(out) == [i \in 1..Len(AllLabels) |-> i]

\* Lines 218-226: the positions in AllLabels of the entries still None.
MissingEntries(out) ==
    SelectSeq([i \in 1..Len(AllLabels) |-> i],
              LAMBDA i : GetOrNone(out[Bucket(AllLabels[i].key)], AllLabels[i].key) = None)

\* Lines 236-247 for one missing entry e whose helper call gave r: the value
\* is None when the call or _to_float raised.
FallbackOne(e, r, out) ==
    IF GetOrNone(out[Bucket(e.key)], e.key) = None /\ ~IsRaise(r) /\ _to_float(r) # None
    THEN [out EXCEPT ![Bucket(e.key)] = DictSet(@, e.key, _to_float(r))]
    ELSE out

\* Lines 234-247: the loop over the missing entries; answer[i] is what
\* page.evaluate(helper, label, unit) gives for entry i: a str, None (null),
\* or an exception.
RECURSIVE Fallback(_, _, _)
Fallback(missing, answer, out) ==
    IF missing = <<>> THEN out
    ELSE Fallback(Tail(missing), answer,
                  FallbackOne(AllLabels[missing[1]], answer[missing[1]], out))

\* Lines 201-214: the three groups after the pass over the text.
TextPass(merged_text) ==
    [ detalles_generacion |-> FirstPass(DETALLE_LABELS, merged_text, NewDict),
      pronostico_demanda |-> FirstPass(PRONOSTICO_LABELS, merged_text, NewDict),
      fuel_mix_pct |->
          CopyParsed(FuelKeyOrder, parse_fuel_mix(merged_text),
                     FuelSkeleton(FUEL_LABELS, NewDict)) ]

\* Lines 228-249: the fallback runs when an entry is missing; an exception of
\* page.goto or evaluate_handle ends it with nothing changed.
SecondPass(missing, dom, out) ==
    IF missing # <<>> /\ dom.goto THEN Fallback(missing, dom.answer, out) ELSE out

DomPass(out, dom) == SecondPass(MissingEntries(out), dom, out)

\* Lines 228-238: the calls the second pass makes on the page: page.goto when
\* an entry is missing, then page.evaluate(helper, label, unit) per missing
\* entry when page.goto and evaluate_handle returned.
GotoCall == [call |-> "goto", entry |-> 0]
EvaluateCall(i) == [call |-> "evaluate", entry |-> i]
SecondPassCalls(missing, dom) ==
    IF missing = <<>> THEN <<>>
    ELSE IF ~dom.goto THEN <<GotoCall>>
    ELSE <<GotoCall>> \o [n \in 1..Len(missing) |-> EvaluateCall(missing[n])]
DomCalls(out, dom) == SecondPassCalls(MissingEntries(out), dom)
scrape_once_calls(page_texts, dom) == DomCalls(TextPass(JoinLines(page_texts)), dom)

\* scrape_once from line 186 on: the three groups of the snapshot.  dom.goto
\* is whether the fallback's page.goto and evaluate_handle succeed.
scrape_once(page_texts, dom) == DomPass(TextPass(JoinLines(page_texts)), dom)

----------------------------------------------------------------------------
(* genera_plants_scraper.py: harvest_for *)

\* \w of the regular expressions, on the characters of the texts
IsWordChar(c) ==
    \/ IsDigit(c) \/ c = "_"
    \/ \E i \in 1..Len(UpperCase) : c \in {UpperCase[i], LowerCase[i]}

\* The \b of MW_RE after a group n that ([\d\.,]+)\s*MW matched.
MwGroup(t, n) ==
    IF n.from > 0 /\ (n.end > Len(t) \/ ~IsWordChar(t[n.end])) THEN n ELSE NoMatch

\* MW_RE at position i: [from, to] of the group and the end of the match.
MwAt(t, i) == MwGroup(t, NumUnitAt(t, i, <<"M", "W">>))

\* MW_RE.search from position i: where the leftmost match starts, or 0.
MwFirst(t, i) == Leftmost({j \in i..Len(t) : MwAt(t, j).from > 0})

\* MW_RE.finditer(text) from position i: group 1 of the matches, in order.
RECURSIVE MwMatchesFrom(_, _)
MwThenRest(t, m) == <<SubSeq(t, m.from, m.to)>> \o MwMatchesFrom(t, m.end)
MwMatchesAt(t, j) == IF j = 0 THEN <<>> ELSE MwThenRest(t, MwAt(t, j))
MwMatchesFrom(t, i) == MwMatchesAt(t, MwFirst(t, i))

FloatsOf(groups) == [i \in 1..Len(groups) |-> plants_to_float(PStr(groups[i]))]

_extract_mw_values(text) ==
    SelectSeq(FloatsOf(MwMatchesFrom(text, 1)), LAMBDA f : f # None)

RECURSIVE Pow10(_)
Pow10(k) == IF k = 0 THEN 1 ELSE 10 * Pow10(k - 1)

\* a + b of two floats (the sums of the texts here are exact in binary)
DecAdd(a, b) ==
    IF a.frac >= b.frac THEN Dec(a.mant + b.mant * Pow10(a.frac - b.frac), a.frac)
    ELSE Dec(a.mant * Pow10(b.frac - a.frac) + b.mant, b.frac)

\* sum(unit_values)
RECURSIVE SumDec(_)
SumDec(values) ==
    IF values = <<>> THEN Dec(0, 0)
    ELSE DecAdd(SumDec(SubSeq(values, 1, Len(values) - 1)), values[Len(values)])

\* Line 246: sum(unit_values) if unit_values else None
TotalMw(unit_values) == IF unit_values # <<>> THEN SumDec(unit_values) ELSE None

\* str.splitlines() for the line ends "\n", "\r" and "\r\n"
LineBreak(t) == Leftmost({i \in 1..Len(t) : t[i] \in {"\n", "\r"}})
BreakLen(t, k) == IF t[k] = "\r" /\ k < Len(t) /\ t[k + 1] = "\n" THEN 2 ELSE 1
RECURSIVE SplitLines(_)
SplitAt(t, k) ==
    IF k = 0 THEN <<t>>
    ELSE <<SubSeq(t, 1, k - 1)>> \o SplitLines(SubSeq(t, k + BreakLen(t, k), Len(t)))
SplitLines(t) == IF t = <<>> THEN <<>> ELSE SplitAt(t, LineBreak(t))

\* s.strip(c), c one character
RECURSIVE LStripChar(_, _)
LStripChar(s, c) == IF Len(s) > 0 /\ s[1] = c THEN LStripChar(Tail(s), c) ELSE s
RECURSIVE RStripChar(_, _)
RStripChar(s, c) ==
    IF Len(s) > 0 /\ s[Len(s)] = c THEN RStripChar(SubSeq(s, 1, Len(s) - 1), c) ELSE s
StripChar(s, c) == RStripChar(LStripChar(s, c), c)

\* Lines 257-260: the unit's name is the text before the match, else the title.
NameOrTitle(name_guess, title) ==
    IF name_guess = <<>> THEN title \o <<" ", "u", "n", "i", "d", "a", "d">> ELSE name_guess
NameGuess(ln, start, title) ==
    NameOrTitle(Strip(StripChar(StripChar(Strip(SubSeq(ln, 1, start - 1)), ":"), "-")), title)

\* Lines 253-261 for a line ln whose first match starts at j (0: none).
UnitOf(ln, m, title) ==
    [unidad |-> NameGuess(ln, m.from, title),
     mw |-> plants_to_float(PStr(SubSeq(ln, m.from, m.to)))]
UnitsOfLine(ln, j, title) == IF j = 0 THEN <<>> ELSE <<UnitOf(ln, MwAt(ln, j), title)>>

\* Lines 250-261: one entry per non-blank line that has a match.
RECURSIVE PerUnit(_, _)
PerUnit(lines, title) ==
    IF lines = <<>> THEN <<>>
    ELSE (IF Strip(lines[1]) = <<>> THEN <<>>
          ELSE UnitsOfLine(lines[1], MwFirst(lines[1], 1), title))
         \o PerUnit(Tail(lines), title)

\* harvest_for(title): card is whether the page has a card with the title,
\* detail_text what _read_visible_modal_or_panel returned.
harvest_for(title, card, detail_text) ==
    IF ~card THEN None
    ELSE [nombre |-> title,
          total_MW |-> TotalMw(_extract_mw_values(detail_text)),
          unidades |-> PerUnit(SplitLines(detail_text), title)]

----------------------------------------------------------------------------
(* genera_plants_scraper.py: robust_goto and the navigation of scrape_plants *)

\* Lines 182-190
selectors ==
    << "text=Data Generación", "text=Generación", "text=Ver Data",
       "h2:has-text('San Juan')", "h2:has-text('Palo Seco')",
       "h2:has-text('Aguirre')", "h2:has-text('Costa Sur')" >>

\* n: pc is the call scrape_plants is at, sel the selector of the robust_goto
\* call, attempt its attempt, log the page calls of that robust_goto call with
\* how each ended, returns how the robust_goto calls so far ended, loaded the
\* flag of line 191, exc the exception that left scrape_plants.
Logged(n, call, how) ==
    [n EXCEPT !.log = Append(@, [call |-> call, attempt |-> n.attempt, how |-> how])]

\* An exception no handler of scrape_plants catches: the run ends.
Aborted(n, exc) == [n EXCEPT !.pc = "aborted", !.exc = exc]

\* Line 192: the next robust_goto call, or line 200 after the last selector.
NextSelector(n) ==
    IF n.sel < Len(selectors) THEN [n EXCEPT !.pc = "route", !.sel = n.sel + 1]
    ELSE [n EXCEPT !.pc = "last_goto"]

\* Lines 196-197: robust_goto raised, `except PWTimeout: continue`; any
\* other exception leaves scrape_plants.
RobustGotoRaised(n, exc) ==
    IF exc = "PwTimeout" THEN NextSelector([n EXCEPT !.returns = Append(@, exc)])
    ELSE Aborted([n EXCEPT !.returns = Append(@, exc)], exc)

\* Lines 194-195: robust_goto returned True: loaded = True, break.
RobustGotoReturned(n) ==
    [n EXCEPT !.pc = "reveal", !.loaded = TRUE, !.returns = Append(@, "True")]

\* Lines 165-168: `except PWTimeout` of robust_goto.
PwTimeoutCaught(n) ==
    IF n.attempt = 2 THEN RobustGotoRaised(n, "PwTimeout") ELSE [n EXCEPT !.pc = "backoff"]

\* A call in robust_goto's try block ended as how.
TryCall(n, how, next) ==
    IF how = "ok" THEN [n EXCEPT !.pc = next]
    ELSE IF how = "PwTimeout" THEN PwTimeoutCaught(n)
    ELSE RobustGotoRaised(n, how)

\* Lines 146-154: page.route, whose exceptions are swallowed; the loop of
\* line 157 starts with attempt 1.
Routed(n, how) ==
    Logged([n EXCEPT !.pc = "goto", !.attempt = 1, !.log = <<>>], "route", how)

\* Line 160 and line 164
WentTo(n, how) == TryCall(Logged(n, "goto", how), how, "settle")
SelectorWaited(n, how) ==
    IF how = "ok" THEN RobustGotoReturned(Logged(n, "wait_for_selector", how))
    ELSE TryCall(Logged(n, "wait_for_selector", how), how, "goto")

\* Line 162 and line 168: page.wait_for_timeout(800), page.wait_for_timeout(1500)
Settled(n) == [Logged(n, "wait_800", "ok") EXCEPT !.pc = "wait_for_selector"]
BackedOff(n) == [Logged(n, "wait_1500", "ok") EXCEPT !.pc = "goto", !.attempt = 2]

\* Lines 199-201: `if not loaded: await page.goto(..., wait_until="load")`,
\* outside every try.
LastResort(n, how) == IF how = "ok" THEN [n EXCEPT !.pc = "last_wait"] ELSE Aborted(n, how)

\* Line 202: then scrape_plants goes on at line 205.
LastWaited(n) == [n EXCEPT !.pc = "reveal"]

----------------------------------------------------------------------------
(* genera_fuel_mix_scraper.py *)

\* Lines 27-30: float(pct_raw.replace("%", "").strip()), else the raw text.
FloatOrRaw(f, pct_raw) == IF IsRaise(f) THEN PStr(pct_raw) ELSE f
Percent(pct_raw) == FloatOrRaw(ParseFloat(Strip(Remove(pct_raw, "%"))), pct_raw)

\* Lines 22-32 for the cell texts of one row.
RowOf(tds) ==
    IF Len(tds) < 2 \/ Strip(tds[1]) = <<>> THEN <<>>
    ELSE << [fuel |-> Strip(tds[1]), pct |-> Percent(Strip(tds[2]))] >>

RECURSIVE RowsOfTable(_)
RowsOfTable(trs) == IF trs = <<>> THEN <<>> ELSE RowOf(trs[1]) \o RowsOfTable(Tail(trs))

\* tables: the rows of each table under A11Y_TABLE, a row being its cell texts.
RECURSIVE extract_rows_from_tables(_)
extract_rows_from_tables(tables) ==
    IF tables = <<>> THEN <<>>
    ELSE RowsOfTable(tables[1]) \o extract_rows_from_tables(Tail(tables))

\* Lines 36-40: argparse leaves with status 0 on --help and with status 2 on a
\* command line it rejects; -1: the arguments are accepted.
parse_args(argv) ==
    IF \E i \in 1..Len(argv) : argv[i] \in {"-h", "--help"} THEN 0
    ELSE IF \E i \in 1..Len(argv) :
               \/ argv[i] \notin {"--headed", "--verbose", "--timeout", "60000"}
               \/ argv[i] = "--timeout" /\ (i = Len(argv) \/ argv[i + 1] # "60000")
               \/ argv[i] = "60000" /\ (i = 1 \/ argv[i - 1] # "--timeout")
         THEN 2
    ELSE -1

\* The handlers' status for every exception but PwTimeout.
ExitCodeUnclassified(exc) == 99

\* Lines 89-94: the status main's handlers exit with.
ExitCodeFor(exc) == IF exc = "PwTimeout" THEN 1 ELSE 99

ErrorMessage(exc) ==
    IF exc = "PwTimeout" THEN "[ERROR] Timeout while loading or waiting for selectors."
    ELSE "[ERROR] Uncaught exception: " \o exc

\* A call of main's try block raised exc: the handler prints and exits.
Raised(f, call, exc) ==
    [f EXCEPT !.pc = "exited", !.log = Append(@, <<call, exc>>), !.exc = exc,
              !.exit = ExitCodeFor(exc), !.stderr = Append(@, ErrorMessage(exc))]

\* A call returned and main goes on at next.
Returned(f, call, next) == [f EXCEPT !.pc = next, !.log = Append(@, <<call, "ok">>)]

Call(f, call, how, next) ==
    IF how = "ok" THEN Returned(f, call, next) ELSE Raised(f, call, how)

\* Lines 60-64: the timeout of wait_for_selector is caught and main waits on.
SelectorWait(f, how) ==
    IF how = "PwTimeout"
    THEN [f EXCEPT !.pc = "wait_for_timeout",
                   !.log = Append(@, <<"wait_for_selector", "PwTimeout">>)]
    ELSE Call(f, "wait_for_selector", how, "extract")

\* Lines 66-68: the rows are kept; none sends main to the dump.
Extracted(f, data) ==
    [f EXCEPT !.pc = IF data = <<>> THEN "dump" ELSE "write", !.data = data,
              !.log = Append(@, <<"extract", "ok">>)]

\* Lines 70-72: the page is saved, the message printed, sys.exit(2).
Dumped(f) ==
    [f EXCEPT !.pc = "exited", !.log = Append(@, <<"dump", "ok">>), !.dump = TRUE,
              !.exit = 2,
              !.stderr = Append(@, "[ERROR] No rows found. Saved fuel_mix_debug.html")]

CsvHeader == [header |-> <<"timestamp_utc", "fuel", "percent">>]

\* Lines 74-81: the header if the file is new, then the first n rows of data.
CsvRows(data, ts, n) == [i \in 1..n |-> [ts |-> ts, fuel |-> data[i].fuel, pct |-> data[i].pct]]
Appended(f, rows) ==
    [exists |-> TRUE, rows |-> (IF f.exists THEN f.rows ELSE <<CsvHeader>>) \o rows]

\* n = -1: CSV_PATH.open raised; 0 <= n < Len(data): a write raised after n
\* rows; n = Len(data): every row was written.
WroteCsv(f, n) ==
    IF n = Len(f.data)
    THEN [Returned(f, "write_csv", "summary") EXCEPT
              !.csv = Appended(f.csv, CsvRows(f.data, f.runs, n))]
    ELSE [Raised(f, "write_csv", "Error") EXCEPT
              !.csv = IF n < 0 THEN f.csv ELSE Appended(f.csv, CsvRows(f.data, f.runs, n))]

\* Line 87 returned: main ends and the interpreter exits with status 0.
Closed(f, how) ==
    IF how = "ok"
    THEN [f EXCEPT !.pc = "exited", !.log = Append(@, <<"close", "ok">>), !.exit = 0]
    ELSE Raised(f, "close", how)

\* Lines 36-40
Parsed(f, argv) ==
    IF parse_args(argv) = -1 THEN [f EXCEPT !.pc = "launch", !.argv = argv]
    ELSE [f EXCEPT !.pc = "exited", !.argv = argv, !.exit = parse_args(argv)]

----------------------------------------------------------------------------
(* pr_grid_logger.py *)

COLUMNS ==
    << "scraped_at_iso", "updated_label_raw", "generacion_total_MW",
       "capacidad_disponible_MW", "reserva_en_rotacion_MW",
       "reserva_operacional_MW", "demanda_proxima_hora_MW",
       "demanda_maxima_hoy_MW", "gas_natural_pct", "carbon_pct",
       "bunker_diesel_pct", "renovables_pct", "otros_pct", "source_pages" >>

\* dict.get(k, default); a value that is no dict has no .get (AttributeError).
HasGet(d) == IsObj(d) \/ d = EmptyDict
DictGet(d, k, default) ==
    IF IsObj(d) /\ k \in DOMAIN d.obj THEN d.obj[k] ELSE default

\* payload.get(k, {}) or {}
GroupOf(payload, k) ==
    LET v == DictGet(payload, k, EmptyDict) IN IF Falsy(v) THEN EmptyDict ELSE v

\* datetime.fromisoformat(s).isoformat(), or the except branch of parse_row.
ScrapedAtIso(scraped_at) ==
    IF IsTs(scraped_at) THEN JTs(scraped_at.ts, "T")
    ELSE IF scraped_at = None THEN JStr("")
    ELSE PyStr(scraped_at)

\* num(x): float(x) if x is not None else None
num(x) ==
    IF x = None THEN None
    ELSE IF IsNum(x) THEN Float(x.num)
    ELSE IF IsNumText(x) THEN Float(x.numtext)
    ELSE IF IsStr(x) THEN Raise("ValueError")
    ELSE Raise("TypeError")

RECURSIVE JoinStrs(_)
JoinStrs(s) ==
    IF Len(s) = 0 THEN ""
    ELSE IF Len(s) = 1 THEN s[1].str
    ELSE s[1].str \o "," \o JoinStrs(Tail(s))

\* ",".join(payload.get("source_pages", []) or []), for a value that is a list,
\* a number, null or missing (a str or dict value is outside the inputs).
JoinSourcePages(payload) ==
    LET v == DictGet(payload, "source_pages", JArr(<<>>)) IN
    IF Falsy(v) THEN JStr("")
    ELSE IF IsArr(v) /\ \A i \in 1..Len(v.arr) : "str" \in DOMAIN v.arr[i]
         THEN JStr(JoinStrs(v.arr))
    ELSE Raise("TypeError")

\* num(group.get(k)); a group that is no dict has no .get.
Metric(group, k) ==
    IF HasGet(group) THEN num(DictGet(group, k, None)) ELSE Raise("AttributeError")

\* [ok |-> the row of the payload], or the exception parse_row raises (the
\* first one in the order the row's cells are evaluated).
parse_row(payload) ==
    IF ~IsObj(payload) THEN Raise("AttributeError")
    ELSE
    LET dg == GroupOf(payload, "detalles_generacion")
        pd == GroupOf(payload, "pronostico_demanda")
        fx == GroupOf(payload, "fuel_mix_pct")
        cells ==
          << ScrapedAtIso(DictGet(payload, "scraped_at", None)),
             DictGet(payload, "updated_label_raw", JStr("")),
             Metric(dg, "generacion_total_MW"),
             Metric(dg, "capacidad_disponible_MW"),
             Metric(dg, "reserva_en_rotacion_MW"),
             Metric(dg, "reserva_operacional_MW"),
             Metric(pd, "proxima_hora_MW"),
             Metric(pd, "maxima_hoy_MW"),
             Metric(fx, "gas_natural"),
             Metric(fx, "carbon"),
             Metric(fx, "bunker_diesel"),
             Metric(fx, "renovables"),
             Metric(fx, "otros"),
             JoinSourcePages(payload) >>
        bad == {i \in 1..Len(cells) : IsRaise(cells[i])}
    IN IF bad = {} THEN [ok |-> cells]
       ELSE cells[CHOOSE i \in bad : \A j \in bad : i <= j]

\* The columns of the readings table, in the order CREATE TABLE lists them.
TableColumns ==
    << "scraped_at_iso", "updated_label_raw", "generacion_total_MW",
       "capacidad_disponible_MW", "reserva_en_rotacion_MW",
       "reserva_operacional_MW", "demanda_proxima_hora_MW",
       "demanda_maxima_hoy_MW", "gas_natural_pct", "carbon_pct",
       "bunker_diesel_pct", "renovables_pct", "otros_pct", "source_pages" >>

\* CREATE TABLE IF NOT EXISTS readings (scraped_at_iso TEXT PRIMARY KEY, ...)
ensure_sqlite(d) == [d EXCEPT !.table = TRUE]

\* The types sqlite3 binds as parameters.
Bindable(v) == v = None \/ IsStr(v) \/ IsFlt(v) \/ IsNum(v)

KeysOf(rows) == {rows[i][1] : i \in 1..Len(rows)}

\* INSERT with the primary key dropped from the schema: every row is stored.
InsertAlways(rows, r) == Append(rows, r)

\* INSERT OR REPLACE INTO readings: a row whose primary key is stored takes
\* the stored row's place.
InsertOrReplace(rows, r) ==
    IF r[1] \in KeysOf(rows)
    THEN [i \in 1..Len(rows) |-> IF rows[i][1] = r[1] THEN r ELSE rows[i]]
    ELSE Append(rows, r)

\* INSERT OR IGNORE INTO readings: a row whose primary key is stored is skipped.
InsertOrIgnore(rows, r) ==
    IF r[1] \in KeysOf(rows) THEN rows ELSE Append(rows, r)

\* write_sqlite with a plain INSERT: a stored primary key raises.
write_sqlite_plain(d, r) ==
    LET d1 == ensure_sqlite(d) IN
    IF ~(\A i \in 1..Len(r) : Bindable(r[i]))
    THEN [db |-> d1, raised |-> Raise("InterfaceError")]
    ELSE IF r[1] \in KeysOf(d1.rows)
    THEN [db |-> d1, raised |-> Raise("IntegrityError")]
    ELSE [db |-> [d1 EXCEPT !.rows = Append(@, r)], raised |-> None]

\* [db |-> the database afterwards, raised |-> None or the exception]
write_sqlite(d, r) ==
    LET d1 == ensure_sqlite(d) IN
    IF \A i \in 1..Len(r) : Bindable(r[i])
    THEN [db |-> [d1 EXCEPT !.rows = InsertOrIgnore(@, r)], raised |-> None]
    ELSE [db |-> d1, raised |-> Raise("InterfaceError")]

\* csv.writer's text of one cell: None is written as the empty string, a
\* float as its repr, a str as it is.
CsvCell(v) ==
    IF v = None THEN JStr("") ELSE IF IsFlt(v) THEN [repr |-> v] ELSE v

CsvLine(r) == [i \in 1..Len(r) |-> CsvCell(r[i])]

Header == CsvLine([i \in 1..Len(COLUMNS) |-> JStr(COLUMNS[i])])

\* ensure_csv without its exists test: the file is opened "w" at every call.
ensure_csv_always(f) == [exists |-> TRUE, lines |-> <<Header>>]

\* ensure_csv: a missing file is created holding the header row.
ensure_csv(f) ==
    IF f.exists THEN f ELSE [exists |-> TRUE, lines |-> <<Header>>]

write_csv(f, r) ==
    LET f1 == ensure_csv(f) IN [f1 EXCEPT !.lines = Append(@, CsvLine(r))]

\* The content of snapshot.json: missing, text that json.loads rejects, or the
\* JSON text of a value.
Missing == [missing |-> TRUE]
BadText == [text |-> "{not json"]
JsonFile(v) == [json |-> v]
IsJson(c) == "json" \in DOMAIN c

\* json.loads(json_path.read_text()): [ok |-> the value] or the exception.
json_loads(content) ==
    IF IsJson(content) THEN [ok |-> content.json] ELSE Raise("JSONDecodeError")

Result(d, f, err, how, exc) ==
    [db |-> d, csv |-> f, stderr |-> err, outcome |-> how, exc |-> exc]

\* Lines 122-128 of process_once: parse_row, write_sqlite, write_csv.
IngestPayload(payload, d, f, err) ==
    LET parsed == parse_row(payload) IN
    IF IsRaise(parsed) THEN Result(d, f, err, "raised", parsed)
    ELSE
    LET w == write_sqlite(d, parsed.ok) IN
    IF IsRaise(w.raised) THEN Result(w.db, f, err, "raised", w.raised)
    ELSE Result(w.db, write_csv(f, parsed.ok), err, "ok", None)

ParseErrorMessage == "[ERROR] Failed to read/parse JSON"

\* process_once that prepares both sinks before it looks at the input.
process_once_eager(content, d, f, err) ==
    LET d0 == ensure_sqlite(d)
        f0 == ensure_csv(f)
        loaded == json_loads(content)
    IN
    IF content = Missing THEN Result(d0, f0, err, "missing", None)
    ELSE IF IsRaise(loaded)
    THEN Result(d0, f0, Append(err, ParseErrorMessage), "json_error", None)
    ELSE IngestPayload(loaded.ok, d0, f0, err)

\* process_once(json_path, csv_path, db_path, verbose): the sinks and the error
\* stream afterwards, and how the call ended ("raised": an exception left it).
process_once(content, d, f, err) ==
    LET loaded == json_loads(content) IN
    IF content = Missing THEN Result(d, f, err, "missing", None)
    ELSE IF IsRaise(loaded)
    THEN Result(d, f, Append(err, ParseErrorMessage), "json_error", None)
    ELSE IngestPayload(loaded.ok, d, f, err)

\* json_path: its content and its st_mtime (None: no such file).
Mtime(t) == [st_mtime |-> t]
NoFile == [content |-> Missing, mtime |-> None]
FileAt(content, t) == [content |-> content, mtime |-> Mtime(t)]

\* Line 165: last_seen_mtime is None or mtime != last_seen_mtime
Changed(mtime, last_seen_mtime) == last_seen_mtime = None \/ mtime # last_seen_mtime

\* What a cycle of the loop did: the mtime it read, last_seen_mtime before
\* and after, whether it called process_once and how the cycle ended.
CycleRecord(l, after, invoked, how) ==
    [mtime |-> l.mtime, before |-> l.last_seen_mtime, after |-> after,
     invoked |-> invoked, how |-> how]

\* Lines 157-160: mtime = json_path.stat().st_mtime, None when not found.
StatDone(l) == [l EXCEPT !.pc = "decide", !.mtime = l.input.mtime]

\* Lines 162-163 and 168-169: nothing to do in this cycle.
CycleIdle(l, how) ==
    [l EXCEPT !.pc = "sleep",
              !.history = Append(@, CycleRecord(l, l.last_seen_mtime, FALSE, how))]

\* Lines 166-167: process_once returned, last_seen_mtime = mtime.
CycleProcessed(l, how) ==
    [l EXCEPT !.pc = "sleep", !.last_seen_mtime = l.mtime,
              !.history = Append(@, CycleRecord(l, l.mtime, TRUE, how))]

\* Line 166 raised: only KeyboardInterrupt is caught (line 172), so the
\* exception leaves the loop and main.
CycleRaised(l, exc) ==
    [l EXCEPT !.pc = "crashed", !.exc = exc.raise,
              !.history = Append(@, CycleRecord(l, l.last_seen_mtime, TRUE, "raised"))]

\* The loop after process_once ended as r.
AfterProcessOnce(l, r) ==
    IF r.outcome = "raised" THEN CycleRaised(l, r.exc) ELSE CycleProcessed(l, r.outcome)

\* The error stream after process_once ended as r: an exception that leaves
\* main is printed by the interpreter.
StderrAfter(r) ==
    IF r.outcome = "raised" THEN Append(r.stderr, "Traceback: " \o r.exc.raise)
    ELSE r.stderr

----------------------------------------------------------------------------
(* The snapshot files the ingester is run on *)

URL1 == JStr("https://genera-pr.com/data-tr")
URL2 == JStr("https://genera-pr.com/data-generacion")

Snapshot(scraped_at, label, gen, src) ==
    JObj([ scraped_at |-> scraped_at,
           updated_label_raw |-> label,
           detalles_generacion |->
               JObj([ generacion_total_MW |-> gen,
                      capacidad_disponible_MW |-> JNum(3000),
                      reserva_en_rotacion_MW |-> None,
                      reserva_operacional_MW |-> JNum(400) ]),
           pronostico_demanda |->
               JObj([ proxima_hora_MW |-> JNum(2200), maxima_hoy_MW |-> None ]),
           fuel_mix_pct |->
               JObj([ gas_natural |-> JNum(40), carbon |-> JNum(15),
                      bunker_diesel |-> JNum(18), renovables |-> None,
                      otros |-> None ]),
           source_pages |-> src ])

Pages == JArr(<<URL1, URL2>>)
Label == JStr("10/20/2025 1:06:02 PM")

GoodPayloads ==
    { Snapshot(JTs(1, "T"), Label, JNum(2129), Pages),
      Snapshot(JTs(1, " "), Label, JNum(2129), Pages),
      Snapshot(JTs(1, "T"), None, JNum(1850), Pages),
      Snapshot(JTs(2, "T"), Label, None, Pages),
      Snapshot(JTs(2, "T"), Label, JNumText(2129), None),
      Snapshot(None, Label, JNum(2129), Pages),
      Snapshot(JStr("yesterday"), Label, JNum(2129), Pages),
      JObj([other |-> None]) }

BadPayloads ==
    { Snapshot(JTs(1, "T"), Label, JStr("abc"), Pages),
      Snapshot(JTs(2, "T"), Label, JArr(<<JNum(1)>>), Pages),
      Snapshot(JTs(1, "T"), Label, JNum(2129), JArr(<<URL1, JNum(7)>>)),
      Snapshot(JTs(2, "T"), Label, JNum(2129), JNum(7)),
      JObj([ scraped_at |-> JTs(1, "T"),
             detalles_generacion |-> JArr(<<JNum(1)>>) ]),
      JArr(<<JNum(1)>>),
      JNum(5) }

UnbindablePayloads ==
    { Snapshot(JTs(1, "T"), JObj([text |-> Label]), JNum(2129), Pages) }

Contents ==
    {Missing, BadText}
        \cup {JsonFile(p) : p \in GoodPayloads \cup BadPayloads \cup UnbindablePayloads}

MaxCalls == 3

----------------------------------------------------------------------------
(* main --once: one process_once call; an exception that leaves it is printed *)
(* by the interpreter as a traceback on the error stream.                     *)

Procs == {"a", "b"}

NormIdle == norm = [input |-> None, fn |-> "none", result |-> None]

NoSnapshot ==
    [detalles_generacion |-> NewDict, pronostico_demanda |-> NewDict,
     fuel_mix_pct |-> NewDict]

NoDom == [goto |-> FALSE, answer |-> [i \in 1..Len(AllLabels) |-> None]]

MixIdle ==
    mix = [text |-> <<>>, label |-> <<>>, number |-> <<>>, done |-> FALSE,
           out |-> [k \in FuelKeys |-> None]]

ScrIdle ==
    scr = [pages |-> <<>>, dom |-> NoDom, done |-> FALSE, out |-> NoSnapshot,
           text_out |-> NoSnapshot, dom_calls |-> <<>>]

\* occ: entry is the catalog entry whose label occurs twice in text, followed
\* by the numbers first and second; found is what _search_number_after_label
\* returned and fuel_mix what parse_fuel_mix returned.
OccIdle ==
    occ = [entry |-> 0, first |-> <<>>, second |-> <<>>, text |-> <<>>,
           searched |-> FALSE, found |-> None, parsed |-> FALSE,
           fuel_mix |-> [k \in FuelKeys |-> None]]

NavIdle ==
    nav = [pc |-> "idle", sel |-> 1, attempt |-> 1, log |-> <<>>, returns |-> <<>>,
           loaded |-> FALSE, exc |-> "none"]

\* fm: pc is the line main is at, argv the command line, log the calls made in
\* this run with how each ended, exc the exception that reached main's
\* handlers, exit the exit status (-1 while running), data the extracted
\* rows, csv fuel_mix.csv now and before the run, dump whether
\* fuel_mix_debug.html exists, runs the number of the run (its clock).
PlantIdle ==
    plant = [title |-> <<>>, card |-> FALSE, text |-> <<>>, done |-> FALSE, item |-> None]

NoCsv == [exists |-> FALSE, rows |-> <<>>]

FmIdle ==
    fm = [pc |-> "idle", argv |-> <<>>, log |-> <<>>, exc |-> "none", exit |-> -1,
          data |-> <<>>, stderr |-> <<>>, csv |-> NoCsv, before |-> NoCsv,
          dump |-> FALSE, runs |-> 0]

ScrapersIdle == NormIdle /\ MixIdle /\ ScrIdle /\ PlantIdle /\ FmIdle /\ OccIdle /\ NavIdle

Idle ==
    /\ pc = [p \in Procs |-> "idle"]
    /\ inp = [p \in Procs |-> Missing]
    /\ row = [p \in Procs |-> <<>>]
    /\ seen = [p \in Procs |-> FALSE]
    /\ res = [p \in Procs |-> "none"]

PollIdle ==
    poll = [pc |-> "idle", input |-> NoFile, mtime |-> None, last_seen_mtime |-> None,
            cycles |-> 0, history |-> <<>>, exc |-> "none"]

NoSinks ==
    /\ db = [table |-> FALSE, rows |-> <<>>]
    /\ csv = [exists |-> FALSE, lines |-> <<>>]
    /\ stderr = <<>>

RunOnce(content) ==
    /\ calls < MaxCalls
    /\ LET r == process_once(content, db, csv, stderr) IN
        /\ db' = r.db
        /\ csv' = r.csv
        /\ stderr' = IF r.outcome = "raised"
                     THEN Append(r.stderr, "Traceback: " \o r.exc.raise)
                     ELSE r.stderr
        /\ outcome' = r.outcome
    /\ calls' = calls + 1
    /\ file' = content
    /\ UNCHANGED <<concVars, poll, scraperVars>>

Init ==
    /\ NoSinks
    /\ outcome = "none"
    /\ calls = 0
    /\ file = Missing
    /\ Idle
    /\ PollIdle
    /\ ScrapersIdle

Ingest == \E content \in Contents : RunOnce(content)

Next == Ingest

Spec == Init /\ [][Next]_vars

----------------------------------------------------------------------------
(* Two ingester processes, each running process_once once, on the same      *)
(* generation_log.sqlite and generation_log.csv.  A step is one access to   *)
(* the shared files; SQLite runs each statement under its database lock.    *)

\* Lines 112-122: the file is read and parsed; nothing shared is touched.
CParse(p) ==
    /\ pc[p] = "start"
    /\ LET r == process_once(inp[p], db, csv, <<>>)
           parsed == parse_row(inp[p].json)
       IN IF inp[p] = Missing \/ IsRaise(json_loads(inp[p])) \/ IsRaise(parsed)
          THEN /\ res' = [res EXCEPT ![p] = r.outcome]
               /\ pc' = [pc EXCEPT ![p] = "done"]
               /\ row' = row
          ELSE /\ row' = [row EXCEPT ![p] = parsed.ok]
               /\ pc' = [pc EXCEPT ![p] = "ensure_sqlite"]
               /\ res' = res
    /\ UNCHANGED <<ingestVars, inp, seen, poll, scraperVars>>

\* Line 97: ensure_sqlite.
CEnsureSqlite(p) ==
    /\ pc[p] = "ensure_sqlite"
    /\ db' = ensure_sqlite(db)
    /\ pc' = [pc EXCEPT ![p] = "insert"]
    /\ UNCHANGED <<csv, stderr, outcome, calls, file, inp, row, seen, res, poll, scraperVars>>

\* Lines 98-109: the INSERT OR IGNORE and its commit.
CInsert(p) ==
    /\ pc[p] = "insert"
    /\ LET w == write_sqlite(db, row[p]) IN
        /\ db' = w.db
        /\ IF IsRaise(w.raised)
           THEN /\ res' = [res EXCEPT ![p] = "raised"]
                /\ pc' = [pc EXCEPT ![p] = "done"]
           ELSE /\ res' = res
                /\ pc' = [pc EXCEPT ![p] = "csv_exists"]
    /\ UNCHANGED <<csv, stderr, outcome, calls, file, inp, row, seen, poll, scraperVars>>

\* Line 23: exists = csv_path.exists().
CCsvExists(p) ==
    /\ pc[p] = "csv_exists"
    /\ seen' = [seen EXCEPT ![p] = csv.exists]
    /\ pc' = [pc EXCEPT ![p] = "csv_create"]
    /\ UNCHANGED <<ingestVars, inp, row, res, poll, scraperVars>>

\* Lines 25-28: if not exists, the file is opened "w" and the header written.
CCsvCreate(p) ==
    /\ pc[p] = "csv_create"
    /\ csv' = ensure_csv([exists |-> seen[p], lines |-> csv.lines])
    /\ pc' = [pc EXCEPT ![p] = "csv_append"]
    /\ UNCHANGED <<db, stderr, outcome, calls, file, inp, row, seen, res, poll, scraperVars>>

\* Lines 93-94: the file is opened "a" and the row written.
CCsvAppend(p) ==
    /\ pc[p] = "csv_append"
    /\ csv' = [exists |-> TRUE, lines |-> Append(csv.lines, CsvLine(row[p]))]
    /\ res' = [res EXCEPT ![p] = "ok"]
    /\ pc' = [pc EXCEPT ![p] = "done"]
    /\ UNCHANGED <<db, stderr, outcome, calls, file, inp, row, seen, poll, scraperVars>>

InitConc ==
    /\ NoSinks
    /\ outcome = "none"
    /\ calls = 0
    /\ file = Missing
    /\ pc = [p \in Procs |-> "start"]
    /\ inp \in [Procs -> Contents]
    /\ row = [p \in Procs |-> <<>>]
    /\ seen = [p \in Procs |-> FALSE]
    /\ res = [p \in Procs |-> "none"]
    /\ PollIdle
    /\ ScrapersIdle

NextConc ==
    \E p \in Procs :
        \/ CParse(p)
        \/ CEnsureSqlite(p)
        \/ CInsert(p)
        \/ CCsvExists(p)
        \/ CCsvCreate(p)
        \/ CCsvAppend(p)

SpecConc == InitConc /\ [][NextConc]_vars

----------------------------------------------------------------------------
(* The numeric normaliser applied to one text *)

SinkIdle ==
    /\ NoSinks
    /\ outcome = "none"
    /\ calls = 0
    /\ file = Missing
    /\ Idle
    /\ PollIdle

ToFloatScraper ==
    /\ norm.fn = "none"
    /\ norm' = [norm EXCEPT !.fn = "genera_scraper", !.result = _to_float(norm.input)]
    /\ UNCHANGED <<sinkVars, mix, scr, plant, fm, occ, nav>>

ToFloatPlants ==
    /\ norm.fn = "none"
    /\ norm' = [norm EXCEPT !.fn = "genera_plants_scraper",
                            !.result = plants_to_float(norm.input)]
    /\ UNCHANGED <<sinkVars, mix, scr, plant, fm, occ, nav>>

InitNorm ==
    /\ SinkIdle
    /\ norm \in [input : NormInputs, fn : {"none"}, result : {None}]
    /\ MixIdle /\ ScrIdle /\ PlantIdle /\ FmIdle /\ OccIdle /\ NavIdle

NextNorm == ToFloatScraper \/ ToFloatPlants

SpecNorm == InitNorm /\ [][NextNorm]_vars

----------------------------------------------------------------------------
(* parse_fuel_mix applied to one labelled percentage *)

\* The bound on the separator between the two words of a label.
MaxSepLen == 3

Seps == Texts({" ", "/"}, MaxSepLen)

GasLabels ==
    {a \o sep \o b : a \in {<<"G", "a", "s">>, <<"G", "A", "S">>},
                     sep \in Seps,
                     b \in {<<"N", "a", "t", "u", "r", "a", "l">>,
                            <<"n", "a", "t", "u", "r", "a", "l">>}}

BunkerLabels ==
    {a \o sep \o b : a \in {<<"B", "u", "n", "k", "e", "r">>,
                            <<"B", "U", "N", "K", "E", "R">>},
                     sep \in Seps,
                     b \in {<<"D", "i", "é", "s", "e", "l">>,
                            <<"D", "i", "e", "s", "e", "l">>,
                            <<"D", "I", "É", "S", "E", "L">>}}

OneWordLabels ==
    {<<"C", "a", "r", "b", "ó", "n">>, <<"C", "a", "r", "b", "o", "n">>,
     <<"C", "A", "R", "B", "Ó", "N">>, <<"R", "e", "n", "o", "v", "a", "b", "l", "e", "s">>,
     <<"R", "E", "N", "O", "V", "A", "B", "L", "E", "S">>, <<"O", "t", "r", "o", "s">>,
     <<"o", "t", "r", "o", "s">>, <<"N", "u", "c", "l", "e", "a", "r">>}

FuelLabelTexts == GasLabels \cup BunkerLabels \cup OneWordLabels

FuelNumbers == {<<"1", "8", ",", "5">>, <<"4", "0">>}

MixInputs ==
    {[text |-> l \o <<":", " ">> \o n \o <<" ", "%">>, label |-> l, number |-> n,
      done |-> FALSE, out |-> [k \in FuelKeys |-> None]] :
        l \in FuelLabelTexts, n \in FuelNumbers}

ParseFuelMix ==
    /\ ~mix.done
    /\ mix' = [mix EXCEPT !.done = TRUE, !.out = parse_fuel_mix(mix.text)]
    /\ UNCHANGED <<sinkVars, norm, scr, plant, fm, occ, nav>>

InitFuelMix ==
    /\ SinkIdle
    /\ NormIdle /\ ScrIdle /\ PlantIdle /\ FmIdle /\ OccIdle /\ NavIdle
    /\ mix \in MixInputs

NextFuelMix == ParseFuelMix

SpecFuelMix == InitFuelMix /\ [][NextFuelMix]_vars

----------------------------------------------------------------------------
(* scrape_once on two page texts and a page for the fallback *)

BlankPage ==
    <<>>
DetallePage ==
    <<"G", "e", "n", "e", "r", "a", "c", "i", "ó", "n", " ", "T", "o", "t",
    "a", "l", " ", "d", "e", "l", " ", "S", "i", "s", "t", "e", "m", "a",
    "\n", "2", ",", "1", "2", "9", " ", "M", "W", "\n", "C", "a", "p", "a",
    "c", "i", "d", "a", "d", " ", "D", "i", "s", "p", "o", "n", "i", "b", "l",
    "e", "\n", "3", ".", "1", "0", "0", ",", "5", " ", "M", "W", "\n", "R",
    "e", "s", "e", "r", "v", "a", " ", "e", "n", " ", "R", "o", "t", "a", "c",
    "i", "ó", "n", " ", "4", "1", "0", " ", "M", "W", "\n", "R", "e", "s",
    "e", "r", "v", "a", " ", "O", "p", "e", "r", "a", "c", "i", "o", "n", "a",
    "l", "\n", "9", "7", "1", " ", "M", "W">>
PronosticoPage ==
    <<"D", "e", "m", "a", "n", "d", "a", " ", "P", "r", "ó", "x", "i", "m",
    "a", " ", "H", "o", "r", "a", ":", " ", "2", ",", "2", "0", "0", " ", "M",
    "W", "\n", "D", "e", "m", "a", "n", "d", "a", " ", "M", "á", "x", "i",
    "m", "a", " ", "R", "e", "g", "i", "s", "t", "r", "a", "d", "a", " ", "H",
    "o", "y", " ", "2", ",", "4", "5", "0", " ", "M", "W">>
FuelPage ==
    <<"G", "a", "s", " ", "N", "a", "t", "u", "r", "a", "l", " ", "4", "5",
    ",", "2", " ", "%", "\n", "C", "a", "r", "b", "ó", "n", ":", " ", "1",
    "7", " ", "%", "\n", "B", "u", "n", "k", "e", "r", " ", "/", " ", "D",
    "i", "é", "s", "e", "l", ":", " ", "1", "8", ",", "5", " ", "%", "\n",
    "R", "e", "n", "o", "v", "a", "b", "l", "e", "s", " ", "4", "%", "\n",
    "O", "t", "r", "o", "s", " ", "0", ",", "3", " ", "%">>
PartialPage ==
    <<"C", "a", "p", "a", "c", "i", "d", "a", "d", " ", "D", "i", "s", "p",
    "o", "n", "i", "b", "l", "e", " ", "-", "-", " ", "M", "W", "\n", "G",
    "a", "s", " ", "N", "a", "t", "u", "r", "a", "l", " ", "n", "/", "d",
    "\n", "O", "t", "r", "o", "s", " ", "1", " ", "%">>
UnreadPage ==
    <<"G", "a", "s", "N", "a", "t", "u", "r", "a", "l", " ", "4", "0", " ",
    "%", "\n", "R", "e", "s", "e", "r", "v", "a", " ", "O", "p", "e", "r",
    "a", "c", "i", "o", "n", "a", "l", " ", "9", "7", "1", " ", "k", "W">>

PageTexts == {BlankPage, DetallePage, PronosticoPage, FuelPage, PartialPage, UnreadPage}

\* What the helper answers for entry i of AllLabels.
NoAnswers == [i \in 1..Len(AllLabels) |-> None]
DomAnswers ==
    { NoAnswers,
      [i \in 1..Len(AllLabels) |-> PStr(<<"4", "1", "0">>)],
      [i \in 1..Len(AllLabels) |-> PStr(<<"n", "/", "d">>)],
      [i \in 1..Len(AllLabels) |-> Raise("Error")],
      [NoAnswers EXCEPT ![2] = PStr(<<"3", ".", "1", "0", "0", ",", "5">>),
                        ![10] = PStr(<<"9">>)],
      [NoAnswers EXCEPT ![9] = PStr(<<"7">>), ![10] = PStr(<<"9">>)] }

Doms == [goto : BOOLEAN, answer : DomAnswers]

ScrapeOnce ==
    /\ ~scr.done
    /\ scr' = [scr EXCEPT !.done = TRUE, !.out = scrape_once(scr.pages, scr.dom),
                           !.text_out = TextPass(JoinLines(scr.pages)),
                           !.dom_calls = scrape_once_calls(scr.pages, scr.dom)]
    /\ UNCHANGED <<sinkVars, norm, mix, plant, fm, occ, nav>>

InitScrape ==
    /\ SinkIdle
    /\ NormIdle /\ MixIdle /\ PlantIdle /\ FmIdle /\ OccIdle /\ NavIdle
    /\ scr \in [pages : PageTexts \X PageTexts, dom : Doms, done : {FALSE},
                 out : {NoSnapshot}, text_out : {NoSnapshot}, dom_calls : {<<>>}]

NextScrape == ScrapeOnce

SpecScrape == InitScrape /\ [][NextScrape]_vars

----------------------------------------------------------------------------
(* harvest_for on one plant's detail text *)

\* The bound on the number of lines of a detail text.
MaxLines == 2

PlantLines ==
    { <<"U", "n", "i", "d", "a", "d", " ", "1", ":", " ", "2", "5", "0", " ",
      "M", "W">>,
      <<"U", "n", "i", "d", "a", "d", " ", "2", ":", " ", "2", "3", "0", ",",
      "5", " ", "M", "W">>,
      <<"T", "G", " ", "1", " ", "-", " ", "3", "0", "0", " ", "M", "W", " ",
      "5", " ", "M", "W">>,
      <<"2", "5", "0">>,
      <<"M", "W">>,
      <<>>,
      <<"T", "o", "t", "a", "l", " ", ".", ",", " ", "M", "W", " ", "1", "0",
      " ", "M", "W">>,
      <<"4", "0", " ", "M", "W", "h">>,
      <<":", " ", "5", " ", "m", "w">>,
      <<"C", "a", "p", "a", "c", "i", "d", "a", "d", " ", "1", "0", "0", "M",
      "W", ".">> }

PlantTexts == {JoinLines(ls) : ls \in UNION {[1..k -> PlantLines] : k \in 0..MaxLines}}

SanJuan == <<"S", "a", "n", " ", "J", "u", "a", "n">>

Harvest ==
    /\ ~plant.done
    /\ plant' = [plant EXCEPT !.done = TRUE,
                              !.item = harvest_for(plant.title, plant.card, plant.text)]
    /\ UNCHANGED <<sinkVars, norm, mix, scr, fm, occ, nav>>

InitPlants ==
    /\ SinkIdle
    /\ NormIdle /\ MixIdle /\ ScrIdle /\ FmIdle /\ OccIdle /\ NavIdle
    /\ plant \in [title : {SanJuan}, card : BOOLEAN, text : PlantTexts, done : {FALSE},
                   item : {None}]

NextPlants == Harvest

SpecPlants == InitPlants /\ [][NextPlants]_vars

----------------------------------------------------------------------------
(* The fuel-mix script, run again and again on the same directory *)

\* The bound on the number of runs.
MaxRuns == 2

Argvs == {<<>>, <<"--headed", "--verbose">>, <<"--timeout", "60000">>,
          <<"--timeout", "soon">>, <<"--help">>}

NoTable ==
    << >>
EmptyTable ==
    << << >> >>
ShortRowTable ==
    << << <<<<"G", "a", "s", " ", "N", "a", "t", "u", "r", "a", "l">>>> >> >>
BlankFuelTable ==
    << << <<<<" ">>, <<"4", "5", "%">>>> >> >>
OneRowTable ==
    << << <<<<"G", "a", "s">>, <<"4", "5", ".", "5", " ", "%">>>> >> >>
TwoTables ==
    << << <<<<"G", "a", "s">>, <<"4", "5", ".", "5", " ", "%">>>> >>,
       << <<<<"O", "t", "r", "o", "s">>, <<"n", "/", "d">>>>, <<<<" ">>, <<"1", "%">>>> >> >>

PageTables == {NoTable, EmptyTable, ShortRowTable, BlankFuelTable, OneRowTable, TwoTables}

\* What a call of the Playwright API may do.
Outcomes == {"ok", "PwTimeout", "Error"}

ParseArgs ==
    /\ fm.pc = "start"
    /\ \E argv \in Argvs : fm' = Parsed(fm, argv)
    /\ UNCHANGED <<sinkVars, norm, mix, scr, plant, occ, nav>>

\* Lines 43-46: sync_playwright, launch, new_context, new_page
Launch ==
    /\ fm.pc = "launch"
    /\ \E o \in Outcomes : fm' = Call(fm, "launch", o, "goto")
    /\ UNCHANGED <<sinkVars, norm, mix, scr, plant, occ, nav>>

Goto ==
    /\ fm.pc = "goto"
    /\ \E o \in Outcomes : fm' = Call(fm, "goto", o, "wait_for_selector")
    /\ UNCHANGED <<sinkVars, norm, mix, scr, plant, occ, nav>>

WaitForSelector ==
    /\ fm.pc = "wait_for_selector"
    /\ \E o \in Outcomes : fm' = SelectorWait(fm, o)
    /\ UNCHANGED <<sinkVars, norm, mix, scr, plant, occ, nav>>

\* Line 64: wait_for_timeout has no timeout of its own.
WaitForTimeout ==
    /\ fm.pc = "wait_for_timeout"
    /\ \E o \in {"ok", "Error"} : fm' = Call(fm, "wait_for_timeout", o, "extract")
    /\ UNCHANGED <<sinkVars, norm, mix, scr, plant, occ, nav>>

Extract ==
    /\ fm.pc = "extract"
    /\ \/ \E tables \in PageTables : fm' = Extracted(fm, extract_rows_from_tables(tables))
       \/ \E o \in {"PwTimeout", "Error"} : fm' = Raised(fm, "extract", o)
    /\ UNCHANGED <<sinkVars, norm, mix, scr, plant, occ, nav>>

Dump ==
    /\ fm.pc = "dump"
    /\ \/ fm' = Dumped(fm)
       \/ \E o \in {"PwTimeout", "Error"} : fm' = Raised(fm, "dump", o)
    /\ UNCHANGED <<sinkVars, norm, mix, scr, plant, occ, nav>>

WriteCsv ==
    /\ fm.pc = "write"
    /\ \E n \in -1..Len(fm.data) : fm' = WroteCsv(fm, n)
    /\ UNCHANGED <<sinkVars, norm, mix, scr, plant, occ, nav>>

\* Lines 83-84: the summary is printed.
Summary ==
    /\ fm.pc = "summary"
    /\ \E o \in {"ok", "Error"} : fm' = Call(fm, "summary", o, "close")
    /\ UNCHANGED <<sinkVars, norm, mix, scr, plant, occ, nav>>

Close ==
    /\ fm.pc = "close"
    /\ \E o \in Outcomes : fm' = Closed(fm, o)
    /\ UNCHANGED <<sinkVars, norm, mix, scr, plant, occ, nav>>

\* The script is started again; the two files stay.
RunAgain ==
    /\ fm.pc = "exited"
    /\ fm.runs < MaxRuns
    /\ fm' = [fm EXCEPT !.pc = "start", !.argv = <<>>, !.log = <<>>, !.exc = "none",
                        !.exit = -1, !.data = <<>>, !.stderr = <<>>,
                        !.before = fm.csv, !.runs = @ + 1]
    /\ UNCHANGED <<sinkVars, norm, mix, scr, plant, occ, nav>>

InitFuelScript ==
    /\ SinkIdle
    /\ NormIdle /\ MixIdle /\ ScrIdle /\ PlantIdle /\ OccIdle /\ NavIdle
    /\ fm = [pc |-> "start", argv |-> <<>>, log |-> <<>>, exc |-> "none", exit |-> -1,
             data |-> <<>>, stderr |-> <<>>, csv |-> NoCsv, before |-> NoCsv,
             dump |-> FALSE, runs |-> 1]

NextFuelScript ==
    \/ ParseArgs \/ Launch \/ Goto \/ WaitForSelector \/ WaitForTimeout \/ Extract
    \/ Dump \/ WriteCsv \/ Summary \/ Close \/ RunAgain

SpecFuelScript == InitFuelScript /\ [][NextFuelScript]_vars

----------------------------------------------------------------------------
(* The two text stages on a page text where one field occurs twice *)

\* What stands between a label and its number.
LabelSeps == {<<" ">>, <<"\n">>, <<":", " ">>}

FirstNumbers == {<<"4", "1", "0">>, <<"1", "8", ",", "5">>}
SecondNumbers == {<<"9", "7", "1">>, <<"4", "0">>}

\* label, number and unit as one line of the page text
FieldLine(e, sep, n) == e.label \o sep \o n \o <<" ">> \o e.unit

OccInputs ==
    {[entry |-> i, first |-> a, second |-> b,
      text |-> FieldLine(AllLabels[i], s1, a) \o <<"\n">> \o FieldLine(AllLabels[i], s2, b),
      searched |-> FALSE, found |-> None, parsed |-> FALSE,
      fuel_mix |-> [k \in FuelKeys |-> None]] :
        i \in 1..Len(AllLabels), s1 \in LabelSeps, s2 \in LabelSeps,
        a \in FirstNumbers, b \in SecondNumbers}

SearchNumberAfterLabel ==
    /\ ~occ.searched
    /\ occ' = [occ EXCEPT !.searched = TRUE,
                           !.found = _search_number_after_label(
                                         occ.text, AllLabels[occ.entry].label,
                                         AllLabels[occ.entry].unit)]
    /\ UNCHANGED <<sinkVars, norm, mix, scr, plant, fm, nav>>

ParseFuelMixTwice ==
    /\ ~occ.parsed
    /\ occ' = [occ EXCEPT !.parsed = TRUE, !.fuel_mix = parse_fuel_mix(occ.text)]
    /\ UNCHANGED <<sinkVars, norm, mix, scr, plant, fm, nav>>

InitOccurrences ==
    /\ SinkIdle
    /\ NormIdle /\ MixIdle /\ ScrIdle /\ PlantIdle /\ FmIdle /\ NavIdle
    /\ occ \in OccInputs

NextOccurrences == SearchNumberAfterLabel \/ ParseFuelMixTwice

SpecOccurrences == InitOccurrences /\ [][NextOccurrences]_vars

----------------------------------------------------------------------------
(* scrape_plants from its first robust_goto call to line 205 *)

\* How a Playwright call ends: it returns, times out, or fails otherwise.
PageOutcomes == {"ok", "PwTimeout", "Error"}

Route ==
    /\ nav.pc = "route"
    /\ \E how \in {"ok", "Error"} : nav' = Routed(nav, how)
    /\ UNCHANGED <<sinkVars, norm, mix, scr, plant, fm, occ>>

PageGoto ==
    /\ nav.pc = "goto"
    /\ \E how \in PageOutcomes : nav' = WentTo(nav, how)
    /\ UNCHANGED <<sinkVars, norm, mix, scr, plant, fm, occ>>

Settle ==
    /\ nav.pc = "settle"
    /\ nav' = Settled(nav)
    /\ UNCHANGED <<sinkVars, norm, mix, scr, plant, fm, occ>>

PageWaitForSelector ==
    /\ nav.pc = "wait_for_selector"
    /\ \E how \in PageOutcomes : nav' = SelectorWaited(nav, how)
    /\ UNCHANGED <<sinkVars, norm, mix, scr, plant, fm, occ>>

Backoff ==
    /\ nav.pc = "backoff"
    /\ nav' = BackedOff(nav)
    /\ UNCHANGED <<sinkVars, norm, mix, scr, plant, fm, occ>>

LastResortGoto ==
    /\ nav.pc = "last_goto"
    /\ \E how \in PageOutcomes : nav' = LastResort(nav, how)
    /\ UNCHANGED <<sinkVars, norm, mix, scr, plant, fm, occ>>

LastResortWait ==
    /\ nav.pc = "last_wait"
    /\ nav' = LastWaited(nav)
    /\ UNCHANGED <<sinkVars, norm, mix, scr, plant, fm, occ>>

InitNav ==
    /\ SinkIdle
    /\ NormIdle /\ MixIdle /\ ScrIdle /\ PlantIdle /\ FmIdle /\ OccIdle
    /\ nav = [pc |-> "route", sel |-> 1, attempt |-> 1, log |-> <<>>, returns |-> <<>>,
              loaded |-> FALSE, exc |-> "none"]

NextNav ==
    \/ Route \/ PageGoto \/ Settle \/ PageWaitForSelector \/ Backoff
    \/ LastResortGoto \/ LastResortWait

SpecNav == InitNav /\ [][NextNav]_vars

----------------------------------------------------------------------------
(* main without --once: the polling loop, and the file it watches *)

\* The cycles of a session and the modification times the file can get.
MaxCycles == 3
MaxMtime == 2

PollContents ==
    { BadText,
      JsonFile(JNum(5)),
      JsonFile(JArr(<<JNum(1)>>)),
      JsonFile(Snapshot(JTs(1, "T"), Label, JStr("abc"), Pages)),
      JsonFile(Snapshot(JTs(2, "T"), Label, JNum(2129), JNum(7))),
      JsonFile(Snapshot(JTs(1, "T"), Label, JNum(2129), Pages)),
      JsonFile(Snapshot(JTs(2, "T"), Label, None, Pages)) }

Running == poll.pc \in {"stat", "decide", "sleep"}

\* The scraper, or anyone, writes or removes snapshot.json.
WriteFile ==
    /\ poll.pc \in {"stat", "decide"}
    /\ \E content \in PollContents, t \in 1..MaxMtime :
          poll' = [poll EXCEPT !.input = FileAt(content, t)]
    /\ UNCHANGED <<ingestVars, concVars, scraperVars>>

RemoveFile ==
    /\ poll.pc \in {"stat", "decide"}
    /\ poll.input # NoFile
    /\ poll' = [poll EXCEPT !.input = NoFile]
    /\ UNCHANGED <<ingestVars, concVars, scraperVars>>

Stat ==
    /\ poll.pc = "stat"
    /\ poll' = StatDone(poll)
    /\ UNCHANGED <<ingestVars, concVars, scraperVars>>

WaitForFile ==
    /\ poll.pc = "decide" /\ poll.mtime = None
    /\ poll' = CycleIdle(poll, "wait")
    /\ UNCHANGED <<ingestVars, concVars, scraperVars>>

SkipUnchanged ==
    /\ poll.pc = "decide" /\ poll.mtime # None
    /\ ~Changed(poll.mtime, poll.last_seen_mtime)
    /\ poll' = CycleIdle(poll, "skip")
    /\ UNCHANGED <<ingestVars, concVars, scraperVars>>

ProcessChanged ==
    /\ poll.pc = "decide" /\ poll.mtime # None
    /\ Changed(poll.mtime, poll.last_seen_mtime)
    /\ LET r == process_once(poll.input.content, db, csv, stderr) IN
        /\ db' = r.db
        /\ csv' = r.csv
        /\ stderr' = StderrAfter(r)
        /\ outcome' = r.outcome
        /\ poll' = AfterProcessOnce(poll, r)
    /\ calls' = calls + 1
    /\ file' = poll.input.content
    /\ UNCHANGED <<concVars, scraperVars>>

Sleep ==
    /\ poll.pc = "sleep"
    /\ poll.cycles < MaxCycles
    /\ poll' = [poll EXCEPT !.pc = "stat", !.cycles = @ + 1]
    /\ UNCHANGED <<ingestVars, concVars, scraperVars>>

KeyboardInterrupt ==
    /\ Running
    /\ poll' = [poll EXCEPT !.pc = "stopped"]
    /\ UNCHANGED <<ingestVars, concVars, scraperVars>>

InitPoll ==
    /\ NoSinks
    /\ outcome = "none"
    /\ calls = 0
    /\ file = Missing
    /\ Idle
    /\ ScrapersIdle
    /\ poll = [pc |-> "stat", input |-> NoFile, mtime |-> None,
               last_seen_mtime |-> None, cycles |-> 1, history |-> <<>>, exc |-> "none"]

NextPoll ==
    \/ WriteFile \/ RemoveFile \/ Stat \/ WaitForFile \/ SkipUnchanged
    \/ ProcessChanged \/ Sleep \/ KeyboardInterrupt

SpecPoll == InitPoll /\ [][NextPoll]_vars

----------------------------------------------------------------------------
(* Properties of the ingestion sink *)

IsPrefix(s, t) == Len(s) <= Len(t) /\ \A i \in 1..Len(s) : s[i] = t[i]

DataLines(f) == IF f.exists THEN Len(f.lines) - 1 ELSE 0

\* The content is a snapshot the store takes: parse_row returns a row and
\* sqlite3 binds every cell of it.
Accepted(content) ==
    /\ IsJson(content)
    /\ ~IsRaise(parse_row(content.json))
    /\ \A i \in 1..Len(COLUMNS) : Bindable(parse_row(content.json).ok[i])

KeyOfContent(content) == parse_row(content.json).ok[1]

\* The content cannot be parsed into a row: json.loads or parse_row raises.
Rejected(content) ==
    /\ content # Missing
    /\ (~IsJson(content) \/ IsRaise(parse_row(content.json)))

\* C1: after every ingestion the readings table holds at most one row per
\* scraped_at_iso, and ingesting a snapshot whose scraped_at_iso is already
\* stored leaves the row count unchanged and ends without an error.
C1_OneRowPerKey ==
    [][ /\ \A i, j \in 1..Len(db'.rows) :
              db'.rows[i][1] = db'.rows[j][1] => i = j
        /\ (Accepted(file') /\ KeyOfContent(file') \in KeysOf(db.rows))
              => /\ Len(db'.rows) = Len(db.rows)
                 /\ outcome' = "ok"
                 /\ stderr' = stderr ]_vars

\* Two snapshots were ingested without error and the table holds one row.
C1_Witness ==
    /\ calls = 2 /\ outcome = "ok" /\ stderr = <<>>
    /\ DataLines(csv) = 2
    /\ Len(db.rows) = 1

\* C2: the flat log is appended to only when the store inserts a row, so the
\* number of data rows of the log equals the number of rows of the store.
C2_LogMirrorsStore == DataLines(csv) = Len(db.rows)

\* C3: a call on a missing file, or on content that cannot be parsed into a
\* row, leaves the store and the log as they were; the missing file is
\* silent, the unparsable content is reported on the error stream.
C3_RejectedWritesNothing ==
    [][ /\ file' = Missing =>
              /\ db' = db /\ csv' = csv
              /\ stderr' = stderr /\ outcome' = "missing"
        /\ Rejected(file') =>
              /\ db' = db /\ csv' = csv
              /\ Len(stderr') = Len(stderr) + 1
              /\ IsPrefix(stderr, stderr')
              /\ outcome' \in {"json_error", "raised"} ]_vars

\* Both sinks hold a row and the last call rejected its input.
C3_Witness ==
    /\ Len(db.rows) > 0 /\ DataLines(csv) > 0
    /\ outcome \in {"json_error", "raised"}
    /\ Rejected(file)

\* C9: starting from no log file, the log holds the header row (the columns
\* of the readings table, in their order) exactly once, as its first line,
\* and every call only appends lines after the ones already there.
C9_HeaderOnceAppendOnly ==
    [][ /\ IsPrefix(csv.lines, csv'.lines)
        /\ csv.exists => csv'.exists
        /\ ~csv'.exists => csv'.lines = <<>>
        /\ csv'.exists =>
              /\ Len(csv'.lines) >= 1
              /\ csv'.lines[1] = [i \in 1..Len(TableColumns) |-> JStr(TableColumns[i])]
              /\ \A i \in 2..Len(csv'.lines) : csv'.lines[i] # Header ]_vars

\* The log holds the header and two data rows.
C9_Witness ==
    /\ csv.exists /\ Len(csv.lines) = 3 /\ csv.lines[1] = Header

----------------------------------------------------------------------------
(* Properties of two concurrent ingesters *)

SameKey ==
    /\ \A p \in Procs : Accepted(inp[p])
    /\ \A p, q \in Procs : KeyOfContent(inp[p]) = KeyOfContent(inp[q])

\* C10: two ingesters run process_once concurrently on snapshots with the
\* same scraped_at: at every point the table holds at most one row per key,
\* and once both have ended it holds exactly one row for that key and
\* neither ingester ended with an error.
C10_ConcurrentOneRow ==
    /\ \A i, j \in 1..Len(db.rows) : db.rows[i][1] = db.rows[j][1] => i = j
    /\ (SameKey /\ \A p \in Procs : pc[p] = "done") =>
          /\ Cardinality({i \in 1..Len(db.rows) :
                             db.rows[i][1] = KeyOfContent(inp["a"])}) = 1
          /\ \A p \in Procs : res[p] = "ok"

\* Both ingesters ended ok on different snapshots with one key, and their
\* steps interleaved: the second one's header write truncated the log.
C10_Witness ==
    /\ SameKey /\ inp["a"] # inp["b"]
    /\ \A p \in Procs : pc[p] = "done" /\ res[p] = "ok"
    /\ Len(db.rows) = 1
    /\ Len(csv.lines) = 2

----------------------------------------------------------------------------
(* Properties of the numeric normaliser *)

\* C4: _to_float of both scraper modules returns the reference result for
\* "1,234.56" (1234.56), "1.234,56" (1234.56), "2129" (2129.0), "", None and
\* "abc" (absent), and for every text a number or absent.
C4_ReferenceResults ==
    norm.fn # "none" =>
        /\ norm.input = PStr(<<"1", ",", "2", "3", "4", ".", "5", "6">>) => norm.result = Dec(123456, 2)
        /\ norm.input = PStr(<<"1", ".", "2", "3", "4", ",", "5", "6">>) => norm.result = Dec(123456, 2)
        /\ norm.input = PStr(<<"2", "1", "2", "9">>) => norm.result = Dec(2129, 0)
        /\ norm.input \in {None, PStr(<<>>), PStr(<<"a", "b", "c">>)} => norm.result = None
        /\ norm.result = None \/ IsDec(norm.result)

----------------------------------------------------------------------------
(* Properties of genera_scraper.py *)

\* The canonical key of each alternative of FUEL_REGEX's label group.
CanonicalKey == <<"gas_natural", "carbon", "bunker_diesel", "renovables", "otros">>

\* The alternative of FUEL_REGEX that matches the whole label text, or 0.
Recognised(label) ==
    LET alts == {a \in 1..Len(FuelAlternatives) : FuelAltEnd(a, label, 1) = Len(label) + 1}
    IN IF alts = {} THEN 0 ELSE CHOOSE a \in alts : TRUE

\* C6: every label text FUEL_REGEX recognises as one of its fuel alternatives
\* (any case, accented or not, with or without a slash, with the whitespace
\* the pattern accepts between the words) is normalised to that fuel's
\* canonical key, so parse_fuel_mix writes its percentage under that key.
C6_RecognisedLabelsMapped ==
    (mix.done /\ Recognised(mix.label) > 0) =>
        mix.out[CanonicalKey[Recognised(mix.label)]] = _to_float(PStr(mix.number))

\* C5: in the snapshot scrape_once returns, each group's key set is the key
\* set of its catalog and every value is a number or null, whatever the page
\* texts are and whether the fallback runs, fails or is skipped.
C5_GroupKeysAreCatalogKeys ==
    scr.done =>
        /\ DOMAIN scr.out.detalles_generacion = KeysIn(DETALLE_LABELS)
        /\ DOMAIN scr.out.pronostico_demanda = KeysIn(PRONOSTICO_LABELS)
        /\ DOMAIN scr.out.fuel_mix_pct = KeysIn(FUEL_LABELS)
        /\ \A g \in DOMAIN scr.out : \A k \in DOMAIN scr.out[g] :
              scr.out[g][k] = None \/ IsDec(scr.out[g][k])

\* A run where no fuel percentage resolved, the fallback page failed to load
\* and a generation detail resolved from the text.
C5_Witness ==
    /\ scr.done /\ ~scr.dom.goto
    /\ \A k \in DOMAIN scr.out.fuel_mix_pct : scr.out.fuel_mix_pct[k] = None
    /\ DOMAIN scr.out.fuel_mix_pct # {}
    /\ \E k \in DOMAIN scr.out.detalles_generacion :
          scr.out.detalles_generacion[k] # None

----------------------------------------------------------------------------
(* Properties of genera_plants_scraper.py *)

\* The mw values of the unidades entries that are not null.
ResolvedMw(unidades) ==
    SelectSeq([i \in 1..Len(unidades) |-> unidades[i].mw], LAMBDA v : v # None)

ExampleText ==
    <<"U", "n", "i", "d", "a", "d", " ", "1", ":", " ", "2", "5", "0", " ",
    "M", "W", "\n", "U", "n", "i", "d", "a", "d", " ", "2", ":", " ", "2",
    "3", "0", ",", "5", " ", "M", "W">>

\* C7: the total_MW harvest_for returns is the sum of the non-null mw values
\* of its unidades, and null exactly when no unit resolved; for the text
\* "Unidad 1: 250 MW\nUnidad 2: 230,5 MW" the units are Unidad 1 with 250.0
\* and Unidad 2 with 230.5 and the total is 480.5.
C7_TotalIsSumOfUnits ==
    (plant.done /\ plant.item # None) =>
        /\ plant.item.total_MW = TotalMw(ResolvedMw(plant.item.unidades))
        /\ plant.text = ExampleText =>
              /\ plant.item.unidades =
                    << [unidad |-> <<"U", "n", "i", "d", "a", "d", " ", "1">>, mw |-> Dec(250, 0)],
                       [unidad |-> <<"U", "n", "i", "d", "a", "d", " ", "2">>, mw |-> Dec(2305, 1)] >>
              /\ plant.item.total_MW = Dec(4805, 1)

----------------------------------------------------------------------------
(* Properties of genera_fuel_mix_scraper.py *)

\* A run whose command line argparse accepted has ended.
Ended == fm.pc = "exited" /\ fm.log # <<>>

TimedOut(call) == \E i \in 1..Len(fm.log) : fm.log[i] = <<call, "PwTimeout">>
Made(call) == \E i \in 1..Len(fm.log) : fm.log[i][1] = call

\* The run appended every extracted row, after the header if the file is new.
RowsWritten ==
    /\ fm.data # <<>>
    /\ fm.csv = Appended(fm.before, CsvRows(fm.data, fm.runs, Len(fm.data)))

\* The run dumped the page and left the CSV as it was.
DumpedOnly == fm.data = <<>> /\ fm.dump /\ Made("dump") /\ fm.csv = fm.before

\* C8 as stated: the script ends with 0, 1, 2 or 99: 0 when rows were
\* extracted and written, 1 when the navigation or the selector wait timed
\* out, 2 when no row was extracted (the page dumped, the CSV untouched), 99
\* for any other failure.
C8_ExitCodes ==
    Ended =>
        /\ fm.exit \in {0, 1, 2, 99}
        /\ fm.exit = 0 => RowsWritten
        /\ fm.exit = 2 => DumpedOnly
        /\ ((TimedOut("goto") \/ TimedOut("wait_for_selector")) /\ fm.exc # "Error")
              => fm.exit = 1
        /\ fm.exit = 99 => fm.exc = "Error"

\* C8 amended: the timeout of the selector wait is swallowed and the run goes
\* on to extract; the script ends with 1 exactly when another Playwright call
\* timed out, with 99 exactly when a call failed otherwise, with 2 exactly
\* when no call failed and no row was extracted (the page dumped, the CSV
\* untouched), with 0 exactly when no call failed and rows were extracted,
\* all of them written.
C8_ExitCodesAmended ==
    Ended =>
        /\ fm.exit \in {0, 1, 2, 99}
        /\ fm.exit = 1 <=> fm.exc = "PwTimeout"
        /\ fm.exc = "PwTimeout" =>
              /\ fm.log[Len(fm.log)][2] = "PwTimeout"
              /\ fm.log[Len(fm.log)][1] # "wait_for_selector"
        /\ fm.exit = 99 <=> fm.exc = "Error"
        /\ fm.exit = 2 <=> (fm.exc = "none" /\ fm.data = <<>>)
        /\ fm.exit = 2 => DumpedOnly
        /\ fm.exit = 0 <=> (fm.exc = "none" /\ fm.data # <<>>)
        /\ fm.exit = 0 => RowsWritten
        /\ (TimedOut("wait_for_selector") /\ fm.log[Len(fm.log)][1] # "wait_for_timeout")
              => Made("extract")

\* The selector wait timed out in a second run and the run still wrote its
\* rows and ended with 0.
C8_Witness ==
    /\ Ended /\ fm.exit = 0
    /\ TimedOut("wait_for_selector")
    /\ fm.runs = 2 /\ fm.before.exists

----------------------------------------------------------------------------
(* The fallback of scrape_once *)

\* The value of catalog entry i in a snapshot's groups.
ValueOf(out, i) == out[Bucket(AllLabels[i].key)][AllLabels[i].key]

Evaluated == {scr.dom_calls[n].entry : n \in 1..Len(scr.dom_calls)} \ {0}
Navigated == \E n \in 1..Len(scr.dom_calls) : scr.dom_calls[n].call = "goto"

\* C11: in scrape_once the helper is evaluated only for catalog entries whose
\* key is None after the passes over the text, page.goto of the fallback is
\* called only when some entry is None, and every key that has a value after
\* the text passes has the same value in the returned snapshot; of the two
\* bunker_diesel entries the second does not replace what the first found.
C11_FallbackPerKey ==
    scr.done =>
        /\ \A i \in Evaluated : ValueOf(scr.text_out, i) = None
        /\ Navigated <=> \E i \in 1..Len(AllLabels) : ValueOf(scr.text_out, i) = None
        /\ \A i \in 1..Len(AllLabels) :
              ValueOf(scr.text_out, i) # None => ValueOf(scr.out, i) = ValueOf(scr.text_out, i)
        /\ (9 \in Evaluated /\ ~IsRaise(scr.dom.answer[9])
               /\ _to_float(scr.dom.answer[9]) # None)
              => ValueOf(scr.out, 10) = _to_float(scr.dom.answer[9])

\* A run where the text gave some values and not others, the fallback page
\* answered a different number for an entry the text had resolved, and both
\* bunker_diesel entries were answered with different numbers.
C11_Witness ==
    /\ scr.done
    /\ \E i \in 1..Len(AllLabels) :
          /\ ValueOf(scr.text_out, i) # None
          /\ i \notin Evaluated
    /\ {9, 10} \subseteq Evaluated
    /\ scr.dom.answer[9] = PStr(<<"7">>) /\ scr.dom.answer[10] = PStr(<<"9">>)
    /\ ValueOf(scr.out, 9) = _to_float(PStr(<<"7">>))

----------------------------------------------------------------------------
(* Several occurrences of one field *)

\* C12: when the page text holds the same field twice (the same label,
\* a number and the unit, on two lines), a value _search_number_after_label
\* returns is the number of the first occurrence, and a value parse_fuel_mix
\* returns for the label's key is the percentage of the first occurrence.
C12_FirstMatchWins ==
    /\ (occ.searched /\ occ.found # None) => occ.found = _to_float(PStr(occ.first))
    /\ (occ.parsed /\ AllLabels[occ.entry].key \in FuelKeys
           /\ occ.fuel_mix[AllLabels[occ.entry].key] # None)
          => occ.fuel_mix[AllLabels[occ.entry].key] = _to_float(PStr(occ.first))

----------------------------------------------------------------------------
(* The navigation of scrape_plants *)

GotoAttempts(log) == Cardinality({i \in 1..Len(log) : log[i].call = "goto"})

\* Attempt a of the robust_goto call ended by a timeout of goto or of the wait.
AttemptTimedOut(log, a) ==
    \E i \in 1..Len(log) :
        /\ log[i].attempt = a /\ log[i].how = "PwTimeout"
        /\ log[i].call \in {"goto", "wait_for_selector"}

\* A robust_goto call has ended and the next has not begun: log is its log.
CallEnded ==
    nav.returns # <<>> /\ nav.pc \in {"route", "last_goto", "last_wait", "reveal", "aborted"}

LastReturn == nav.returns[Len(nav.returns)]

\* One robust_goto call: at most two attempts, the second only after the
\* first timed out and the backoff was waited, True at the first attempt
\* whose goto and wait_for_selector both returned, the timeout raised only
\* when both attempts timed out.
RobustGotoRetriesOnce ==
    /\ GotoAttempts(nav.log) <= 2
    /\ \A i \in 1..Len(nav.log) :
          (nav.log[i].call = "goto" /\ nav.log[i].attempt = 2)
              => /\ i > 1 /\ nav.log[i - 1].call = "wait_1500"
                 /\ AttemptTimedOut(nav.log, 1)
    /\ (CallEnded /\ LastReturn = "True")
          => /\ Len(nav.log) >= 3
             /\ nav.log[Len(nav.log)] =
                    [call |-> "wait_for_selector", attempt |-> nav.attempt, how |-> "ok"]
             /\ nav.log[Len(nav.log) - 2] =
                    [call |-> "goto", attempt |-> nav.attempt, how |-> "ok"]
             /\ nav.attempt = 2 => AttemptTimedOut(nav.log, 1)
    /\ (CallEnded /\ LastReturn = "PwTimeout")
          => /\ GotoAttempts(nav.log) = 2
             /\ AttemptTimedOut(nav.log, 1) /\ AttemptTimedOut(nav.log, 2)

EveryCallTimedOut ==
    /\ Len(nav.returns) = Len(selectors)
    /\ \A i \in 1..Len(nav.returns) : nav.returns[i] = "PwTimeout"

\* scrape_plants goes on after every robust_goto call timed out.
CycleContinues == EveryCallTimedOut => nav.pc # "aborted"

\* C13: robust_goto retries a timed-out navigation once (at most two attempts
\* per call, success at the first attempt that loads and finds the selector,
\* the backoff between the attempts, the timeout raised only after the
\* second attempt timed out), and scrape_plants is not aborted when every
\* robust_goto call has timed out.
C13_RetryOnceThenContinue == RobustGotoRetriesOnce /\ CycleContinues

----------------------------------------------------------------------------
(* The polling loop *)

\* C14: in the polling loop no cycle halts the loop, whatever the input file
\* holds (missing, not JSON, JSON that is no object, an object with
\* non-numeric or wrongly typed values): every cycle ends without an
\* exception leaving it, and the loop stops only on a user interrupt.
C14_NoCycleHaltsLoop ==
    /\ poll.pc # "crashed"
    /\ \A i \in 1..Len(poll.history) : poll.history[i].how # "raised"

\* The mtime a cycle read is the one of an earlier cycle and no cycle between
\* them read another one.
SameMtimeSince(h, i, j) ==
    \A k \in i..j : h[k].mtime \in {None, h[i].mtime}

\* C15: a cycle calls process_once iff the file exists and its mtime differs
\* from the recorded one (or none is recorded); the recorded mtime is the
\* file's after every call, ingested or rejected, and unchanged in a cycle
\* where the file is missing; a file whose mtime does not change is
\* processed at most once in a session.
C15_ProcessOncePerMtime ==
    /\ \A i \in 1..Len(poll.history) :
          /\ poll.history[i].invoked
                <=> (poll.history[i].mtime # None
                       /\ Changed(poll.history[i].mtime, poll.history[i].before))
          /\ poll.history[i].invoked => poll.history[i].after = poll.history[i].mtime
          /\ poll.history[i].mtime = None
                => poll.history[i].after = poll.history[i].before
    /\ \A i, j \in 1..Len(poll.history) :
          (i < j /\ poll.history[i].invoked /\ poll.history[i].mtime # None
             /\ SameMtimeSince(poll.history, i, j))
              => ~poll.history[j].invoked

----------------------------------------------------------------------------
(* The first writer of a key *)

\* The row stored under the key of the content.
StoredRow(content) ==
    db.rows[CHOOSE i \in 1..Len(db.rows) : db.rows[i][1] = KeyOfContent(content)]

\* C16: a row enters the store only as the row parse_row makes of the
\* snapshot being ingested, under a key that was not stored, and no
\* ingestion changes a column of a stored row: the row of a key holds the
\* values of the first ingested snapshot whose scraped_at normalises to the
\* key, and a later snapshot with that key and other values changes nothing.
C16_FirstWriterWins ==
    [][ /\ Len(db.rows) <= Len(db'.rows) /\ Len(db'.rows) <= Len(db.rows) + 1
        /\ \A i \in 1..Len(db.rows) : db'.rows[i] = db.rows[i]
        /\ Len(db'.rows) = Len(db.rows) + 1
              => /\ Accepted(file')
                 /\ KeyOfContent(file') \notin KeysOf(db.rows)
                 /\ db'.rows[Len(db'.rows)] = parse_row(file'.json).ok
        /\ (Accepted(file') /\ KeyOfContent(file') \in KeysOf(db.rows))
              => db'.rows = db.rows ]_vars

\* A snapshot was ingested whose key was stored with other values, next to
\* the row of another key.
C16_Witness ==
    /\ calls = MaxCalls /\ outcome = "ok"
    /\ Accepted(file)
    /\ Len(db.rows) = 2
    /\ KeyOfContent(file) \in KeysOf(db.rows)
    /\ StoredRow(file) # parse_row(file.json).ok

====
